---- MODULE Spec2Model ----
(***************************************************************************)
(* The Medi Runner console: face-descriptor enrollment and matching (the  *)
(* users table, POST /api/users, POST /api/face/enroll and                 *)
(* POST /api/face/recognize), the session cookie and the middleware, the   *)
(* voice assistant, the status poll of the dashboard and the drive and     *)
(* mode routes.  The state machines:                                       *)
(*   Spec        the face routes called one request at a time;             *)
(*   MatchSpec   the matcher on tables of enrolled identities;             *)
(*   StoreSpec   the matcher on tables holding rows of any length;         *)
(*   CaptureSpec captureFaceDescriptor and the pages that call it          *)
(*               (CaptureLiveSpec adds the fairness of its timer);         *)
(*   ConcSpec    the enroll and recognize handlers interleaved at their    *)
(*               awaits;                                                   *)
(*   SessionSpec login, face login, logout and the middleware;             *)
(*   VoiceSpec   the VoiceAssistant and its SpeechRecognition object;      *)
(*   PollSpec    the status poll of the dashboard (PollLiveSpec adds       *)
(*               fetches that settle and timers that fire);                *)
(*   DriveSpec   the drive and mode routes, the robot and the Event table. *)
(*                                                                         *)
(* Numbers.  A JavaScript number is modelled as a record                   *)
(*   [k |-> "fin", v |-> n]   the finite value n/10 (n an integer),        *)
(*   [k |-> "inf", v |-> s]   s * Infinity (s = 1 or -1),                  *)
(*   [k |-> "nan", v |-> 0]   NaN.                                         *)
(* Descriptor elements are tenths, squared differences and their sums are  *)
(* hundredths, computed exactly.  A distance is kept as the sum it is the  *)
(* square root of (field sq): Math.sqrt is strictly increasing, so         *)
(* comparing two distances is comparing their sums.                        *)
(***************************************************************************)
EXTENDS Integers, Sequences, FiniteSets, TLC

\* users: the User table, a row per id 1..Len(users) (AUTOINCREMENT, no route
\*        deletes a row).
\* last:  the request handled last, the handler's locals at its end and the
\*        response it sent.
\* capture: the browser page that captures a face (app/enroll/page.tsx or
\*        app/login/page.tsx) and its call of captureFaceDescriptor.
\* calls: the requests being handled concurrently by the server, each at its
\*        position between two awaits.
\* client: a browser: its cookie jar and the answer of the middleware to its
\*        last navigation.
\* voice: the VoiceAssistant singleton of a page and the SpeechRecognition
\*        object it drives.
\* poll:  the dashboard page and its status poll.
\* drive: the robot, the Event table and the drive and mode routes.
VARIABLES users, last, capture, calls, client, voice, poll, drive

vars == <<users, last, capture, calls, client, voice, poll, drive>>

\* The state the face routes and the capturing page do not touch.
elsewhere == <<client, voice, poll, drive>>

\* ------------------------------------------------------------- bounds
\* Rows the users table may hold (POST /api/users stops creating beyond it).
MaxUsers == 2

\* Rows of the tables the matcher is run against on its own.
MatchRows == 3
\* Faces a detection may report in one frame.
MaxFaces == 2
\* Restart timers of the voice assistant that may be pending at once.
MaxTimers == 2
\* Times the effect of the dashboard runs (mounts of the page).
MaxMounts == 2
\* Polls of one effect that may be in flight or scheduled at once.
MaxPolls == 2
\* Commands the robot may accept (no request is made beyond it).
MaxCommands == 2
\* Rows of the tables whose embeddings the enroll route did not write.
StoreRows == 2
\* Enroll requests handled concurrently (next to one recognize request).
ConcEnrolls == 2

\* ------------------------------------------------ JSON values of a request
\* Elements of a parsed JSON array (req.json()): a finite number, a number
\* that overflowed to Infinity (the text 1e999), null, a non-numeric string.
Num(n) == [t |-> "number", v |-> n]
Infinity == [t |-> "infinity", v |-> 0]
Null == [t |-> "null", v |-> 0]
Str == [t |-> "string", v |-> 0]

\* Values of a body field: an array, a missing field, a non-empty string,
\* a number.
\* An array is kept by its length, its first element and the element every
\* later position holds: the arrays of the model all have that shape, and
\* a[i] is At(a, i).
Arr(n, e0, e) == [length |-> n, first |-> e0, rest |-> e]
At(a, i) == IF i = 1 THEN a.first ELSE a.rest
NoItems == Arr(0, Num(0), Num(0))

ArrayOf(a) == [kind |-> "array", items |-> a, n |-> 0]
Undefined == [kind |-> "undefined", items |-> NoItems, n |-> 0]
StringVal == [kind |-> "string", items |-> NoItems, n |-> 0]
NumberVal(n) == [kind |-> "number", items |-> NoItems, n |-> n]

\* !v of JavaScript: undefined and the number 0 are falsy; arrays (the empty
\* one too) and non-empty strings are truthy.
Falsy(v) == v.kind = "undefined" \/ (v.kind = "number" /\ v.n = 0)

IsArray(v) == v.kind = "array"

\* The length every descriptor must have.
DESCRIPTOR_LENGTH == 128

Fill(n, e) == Arr(n, e, e)
FirstThen(n, e0, e) == Arr(n, e0, e)

\* Descriptors a client may send, of the right length.
dZero == Fill(DESCRIPTOR_LENGTH, Num(0))
dNear == FirstThen(DESCRIPTOR_LENGTH, Num(5), Num(0))
dEdge == FirstThen(DESCRIPTOR_LENGTH, Num(6), Num(0))
dStr == FirstThen(DESCRIPTOR_LENGTH, Str, Num(0))
dInf == FirstThen(DESCRIPTOR_LENGTH, Infinity, Num(0))
\* 2.0 then zeros: at distance 2.0 of dZero, beyond distance 1.
dFar == FirstThen(DESCRIPTOR_LENGTH, Num(20), Num(0))
\* 1.0 everywhere: at distance sqrt(128) of dZero.
dOnes == Fill(DESCRIPTOR_LENGTH, Num(10))

\* Arrays of a wrong length.
dShort == Fill(DESCRIPTOR_LENGTH - 1, Num(0))
dLong == Fill(DESCRIPTOR_LENGTH + 1, Num(0))

FullArrays == {dZero, dNear, dEdge, dStr, dInf}
WrongArrays == {dShort, dLong}

\* What the faceDescriptor field of a request body may hold.
DescriptorInputs ==
  {ArrayOf(s) : s \in FullArrays \cup WrongArrays} \cup {Undefined}

\* What the userId field may hold: 0, the ids of rows, one id beyond them,
\* a string.
UserIdInputs == {NumberVal(n) : n \in 0..(MaxUsers + 1)} \cup {StringVal}

\* Values new Date() may give.
Times == {1}

\* The username of the k-th account, a role and a password.
Name(k) == <<"user", k>>
Roles == {"Pilot"}

\* The usernames POST /api/users is asked for in a state: the first account's
\* (taken as soon as it exists) and the next new one.
UsernameInputs(table) == {Name(1), Name(Len(table) + 1)}
Passwords == {"1234"}

\* ------------------------------------------------- JavaScript arithmetic
Fin(n) == [k |-> "fin", v |-> n]
Inf(s) == [k |-> "inf", v |-> s]
NaN == [k |-> "nan", v |-> 0]

\* The number an array element is coerced to by the operator "-":
\* null is 0, a non-numeric string is NaN.
ToNumber(e) ==
  CASE e.t = "number" -> Fin(e.v)
    [] e.t = "infinity" -> Inf(1)
    [] e.t = "null" -> Fin(0)
    [] OTHER -> NaN

\* x - y
Sub(x, y) ==
  CASE x.k = "nan" \/ y.k = "nan" -> NaN
    [] x.k = "inf" /\ y.k = "inf" -> IF x.v = y.v THEN NaN ELSE Inf(x.v)
    [] x.k = "inf" -> Inf(x.v)
    [] y.k = "inf" -> Inf(0 - y.v)
    [] OTHER -> Fin(x.v - y.v)

\* Math.pow(x, 2): tenths squared are hundredths.
Pow2(x) ==
  CASE x.k = "nan" -> NaN
    [] x.k = "inf" -> Inf(1)
    [] OTHER -> Fin(x.v * x.v)

\* x + y, for the non-negative terms of a sum of squares.
Add(x, y) ==
  CASE x.k = "nan" \/ y.k = "nan" -> NaN
    [] x.k = "inf" \/ y.k = "inf" -> Inf(1)
    [] OTHER -> Fin(x.v + y.v)

\* A distance: Math.sqrt of a sum of squares, kept as that sum (hundredths).
Sqrt(sum) == [k |-> sum.k, sq |-> sum.v]
Threw == [k |-> "throw", sq |-> 0]

\* d1 < d2 on distances: false as soon as one is NaN.
Less(d1, d2) ==
  CASE d1.k = "nan" \/ d2.k = "nan" -> FALSE
    [] d1.k = "inf" -> FALSE
    [] d2.k = "inf" -> TRUE
    [] OTHER -> d1.sq < d2.sq

\* The sum the loop of euclideanDistance accumulates over the indices lo..hi
\* (1-based here), halved recursively: the terms are non-negative, infinite
\* or NaN, so the order of the additions does not change the sum.
RECURSIVE SumOver(_, _, _, _)
SumOver(a, b, lo, hi) ==
  IF lo > hi THEN Fin(0)
  ELSE IF lo = hi THEN Pow2(Sub(ToNumber(At(a, lo)), ToNumber(At(b, lo))))
  ELSE LET mid == (lo + hi) \div 2
       IN Add(SumOver(a, b, lo, mid), SumOver(a, b, mid + 1, hi))

\* Mutant: the length test is dropped and the loop runs over a, reading
\* undefined (NaN in the subtraction) beyond the end of a shorter b and
\* leaving out the end of a longer b.
euclideanDistanceUnchecked(a, b) ==
  IF a.length > b.length THEN Sqrt(NaN)
  ELSE Sqrt(SumOver(a, b, 1, a.length))

euclideanDistance(a, b) ==
  IF a.length # b.length THEN Threw
  ELSE Sqrt(SumOver(a, b, 1, a.length))

\* Threshold for a face match, 0.6, in tenths.
MATCH_THRESHOLD == 6

\* distance < MATCH_THRESHOLD: the sum (hundredths) against 0.36.
BelowThreshold(d) == d.k = "fin" /\ d.sq < MATCH_THRESHOLD * MATCH_THRESHOLD

\* The least c in lo..hi with (2c + 1)^2 >= m (bisection).
RECURSIVE LeastHalfRoot(_, _, _)
LeastHalfRoot(m, lo, hi) ==
  IF lo >= hi THEN lo
  ELSE LET mid == (lo + hi) \div 2
       IN IF (2 * mid + 1) * (2 * mid + 1) >= m
          THEN LeastHalfRoot(m, lo, mid)
          ELSE LeastHalfRoot(m, mid + 1, hi)

\* Mutant: the percentage is clamped to 0..100.
ConfidenceClamped(d) ==
  CASE d.k = "nan" -> NaN
    [] d.k = "inf" -> Fin(0)
    [] OTHER -> LET c == 100 - LeastHalfRoot(400 * d.sq, 0, d.sq \div 100 + 2501)
                IN IF c < 0 THEN Fin(0) ELSE Fin(c)

\* Math.round((1 - distance) * 100), an integer percentage (v is NOT tenths
\* here).  With y = 100 * distance = sqrt(100 * sq), Math.round(100 - y) is
\* floor(100.5 - y) = 100 - c for the least c with c + 0.5 >= y.
\* The search stops at sq / 100 + 2501, which is above y (y <= 2500 + y^2 / 10000).
Confidence(d) ==
  CASE d.k = "nan" -> NaN
    [] d.k = "inf" -> Inf(-1)
    [] OTHER -> Fin(100 - LeastHalfRoot(400 * d.sq, 0, d.sq \div 100 + 2501))

\* ------------------------------------------------------------- JSON text
\* JSON.stringify of an array: a text of one token per element, kept like an
\* array.  A finite number is written as its digits, Infinity and NaN as
\* null, a string in quotes.
Token(e) ==
  CASE e.t = "number" -> [lit |-> "digits", v |-> e.v]
    [] e.t = "string" -> [lit |-> "quoted", v |-> 0]
    [] OTHER -> [lit |-> "null", v |-> 0]

JSONstringify(a) == Arr(a.length, Token(a.first), Token(a.rest))

\* JSON.parse of such a text.
Element(tok) ==
  CASE tok.lit = "digits" -> Num(tok.v)
    [] tok.lit = "quoted" -> Str
    [] OTHER -> Null

JSONparse(text) == Arr(text.length, Element(text.first), Element(text.rest))

\* The distance of a probe to a stored text, as the loop of recognize computes
\* it: JSON.parse, then euclideanDistance.
StoredDistance(probe, text) == euclideanDistance(probe, JSONparse(text))

\* StoredDistance tabulated once over the descriptors of the model.
StoredTexts == {JSONstringify(a) : a \in FullArrays \cup {dFar}}
DistanceMemo ==
  {[probe |-> p, text |-> t, distance |-> StoredDistance(p, t)] :
     p \in FullArrays \cup {dFar, dOnes}, t \in StoredTexts}

\* StoredDistance, looked up in the table where the table has it.
DistanceToStored(probe, text) ==
  LET hit == {m \in DistanceMemo : m.probe = probe /\ m.text = text}
  IN IF hit # {} THEN (CHOOSE m \in hit : TRUE).distance
     ELSE StoredDistance(probe, text)

\* NextResponse.json of a number: NaN and the infinities are written null.
JSONnumber(x) == IF x.k = "fin" THEN Num(x.v) ELSE Null

\* String(n) of an integer id.
String(n) == ToString(n)

\* ---------------------------------------------------------- the User table
NoTokens == Arr(0, Token(Num(0)), Token(Num(0)))
NullText == [isNull |-> TRUE, text |-> NoTokens]
Text(s) == [isNull |-> FALSE, text |-> s]
NullDate == [isNull |-> TRUE, t |-> 0]
Date(t) == [isNull |-> FALSE, t |-> t]

\* prisma.user.create: the face columns of a new row are NULL.
NewUser(username, password, role) ==
  [username |-> username, password |-> password, role |-> role,
   faceDescriptor |-> NullText, faceEnrolledAt |-> NullDate]

\* where: { faceDescriptor: { not: null } }
Enrolled(table) == {id \in 1..Len(table) : ~table[id].faceDescriptor.isNull}

\* The orders findMany may return a set of rows in (no orderBy is given).
Orders(S) ==
  {o \in [1..Cardinality(S) -> S] : \A i, j \in 1..Cardinality(S) : o[i] = o[j] => i = j}

\* ------------------------------------------------------------- responses
NoUser == [id |-> 0, username |-> Name(0), role |-> ""]
NoDistance == [k |-> "none", sq |-> 0]

\* NextResponse.json({ ok, error }, { status }); has lists the fields of the
\* body, setCookie is the value of a sessionUserId cookie ("" when not set),
\* cookieExpired says that the response sets the cookie to "" with an expiry
\* date in the past, listed the ids of the users of the body whose
\* faceEnrolled is true.
Response(status, ok, error) ==
  [status |-> status, ok |-> ok, error |-> error, has |-> {"ok", "error"},
   matched |-> FALSE, user |-> NoUser, confidence |-> Null,
   distance |-> NoDistance, setCookie |-> "", cookieExpired |-> FALSE,
   enrolled |-> FALSE, listed |-> {}]

NoBest == [isNull |-> TRUE, userId |-> 0, username |-> Name(0), role |-> "",
           distance |-> NoDistance]
NoRequest ==
  [op |-> "none", userId |-> Undefined, faceDescriptor |-> Undefined,
   username |-> Name(0), password |-> "", order |-> <<>>, bestMatch |-> NoBest,
   threw |-> FALSE, resp |-> Response(0, FALSE, "")]

\* A page that is not capturing.
\*   pc          idle, progress (the handler runs, captureFaceDescriptor is not
\*               called yet), detecting (captureFaceDescriptor awaits the
\*               race), error (the page shows the failure), sending (the fetch
\*               is on its way), done (the response came back)
\*   detection   the promise of faceapi.detectAllFaces...: none, pending,
\*               resolved (with `faces` detections) or rejected
\*   timer       the setTimeout of the timeout promise: off, armed, fired
\*   race        what settled Promise.race: none, detection, timeout
\*   result      of captureFaceDescriptor: none, success, failure; descriptor
\*               says whether it carries one
\*   cancelledAt the pc at which handleReset ran ("" if it did not)
\*   sent        a fetch to /api/face/enroll or /api/face/recognize was made
\*   step, selectedUser
\*               the state of the enroll page (its step and the id of the
\*               user it enrolls, 0 for null); the page waits at step
\*               "positioning" with user 1 selected
CaptureIdle(page) ==
  [page |-> page, pc |-> "idle", detection |-> "none", faces |-> 0, timer |-> "off",
   race |-> "none", result |-> "none", descriptor |-> FALSE, error |-> "",
   cancelledAt |-> "", sent |-> FALSE,
   step |-> IF page = "enroll" THEN "positioning" ELSE "none",
   selectedUser |-> IF page = "enroll" THEN 1 ELSE 0]

\* No page is capturing; no request is being handled concurrently.
NoCapture == CaptureIdle("none")
NoCalls == <<>>

\* A cookie jar: the sessionUserId cookie, if it holds one, and its value.
NoCookie == [has |-> FALSE, value |-> ""]
Cookie(value) == [has |-> TRUE, value |-> value]

\* The answer of the middleware to a navigation: NextResponse.next() or a
\* redirect to `location` with the search parameter from.
NoNav == [pathname |-> "", sent |-> NoCookie, answer |-> "none", location |-> "", from |-> ""]

\* A browser that holds no cookie and has not navigated.  session is the
\* history of the client: the id of its most recent successful
\* authentication that no logout followed ("" if there is none).
NoClient == [cookie |-> NoCookie, nav |-> NoNav, session |-> ""]

\* A VoiceAssistant after its constructor (recognition says whether the
\* browser has a SpeechRecognition, so that this.recognition is not null).
\*   rec         the SpeechRecognition object: idle, running (started),
\*               erred (its error event was delivered, its end event is to
\*               come), stopping (stop() was called, its end event is to come)
\*   timers      the restart timers (setTimeout of 100 ms) that are pending
\*   startCalled the recognition.start() of the last step: "no" if it made
\*               none, else the state the recognizer was in: "idle",
\*               "running", or "ending" (erred or stopping)
\*   speaking    the speech synthesis is saying an utterance
\*   lastStep    the method, handler or callback that ran last
\*   stopped     history: stopListening() or setEnabled(false) was called and
\*               startListening() was not called since while enabled
NewVoice(recognition) ==
  [recognition |-> recognition, isListening |-> FALSE, isEnabled |-> TRUE,
   rec |-> "idle", timers |-> 0, startCalled |-> "no", speaking |-> FALSE,
   lastStep |-> "constructor",
   stopped |-> FALSE]

NoVoice == NewVoice(FALSE)

\* The dashboard before its effect ran.
\*   chains     one entry per run of the effect: its `cancelled` variable and
\*              the polls it started, counted by where they are: fetching
\*              (awaiting the three fetches), mode (awaiting the fetch of
\*              /api/mode), timers (setTimeout(poll, 1000) pending)
\*   status, online, irSensors, simulationMode, mode
\*              the state of the component the poll sets
\*   lateWrite  history: a poll set state after its effect was cleaned up
NoPoll ==
  [chains |-> <<>>, status |-> "empty", online |-> FALSE, irSensors |-> "null",
   simulationMode |-> FALSE, mode |-> "manual", lateWrite |-> FALSE]

\* The drive and mode routes before their first request.
\*   pc        idle, robot (the handler awaits robotPost), event (it awaits
\*             prisma.event.create), done
\*   route     drive (app/api/drive/route.ts), driveChecked (the version of
\*             it that validates the direction), mode (app/api/mode/route.ts)
\*   robot     the outcome of the request to the robot: none, accepted (a
\*             2xx response), refused (another status), unreachable (fetch
\*             rejected)
\*   logged    the handler created its event
\*   commands  the commands the robot accepted
\*   events    the Event table: the type of each row
\*   resp      the response of the route
NoDrive ==
  [pc |-> "idle", route |-> "none", direction |-> "", robot |-> "none",
   logged |-> FALSE, commands |-> 0, events |-> <<>>,
   resp |-> [status |-> 0, ok |-> FALSE]]

ElsewhereIdle ==
  /\ client = NoClient
  /\ voice = NoVoice
  /\ poll = NoPoll
  /\ drive = NoDrive

\* ------------------------------------------------------- POST /api/users
UsernameTaken(table, username) == \E id \in 1..Len(table) : table[id].username = username

UsersPOST(username, password, role) ==
  IF UsernameTaken(users, username)
  THEN /\ users' = users
       /\ last' = [NoRequest EXCEPT !.op = "createUser", !.username = username,
                     !.resp = Response(409, FALSE, "Username already exists")]
  ELSE /\ Len(users) < MaxUsers
       /\ users' = Append(users, NewUser(username, password, role))
       /\ last' = [NoRequest EXCEPT !.op = "createUser", !.username = username,
                     !.resp = [Response(200, TRUE, "") EXCEPT
                                 !.has = {"ok", "user"},
                                 !.user = [id |-> Len(users) + 1,
                                           username |-> username, role |-> role]]]

\* -------------------------------------------------------- GET /api/users
\* faceEnrolled: !!user.faceEnrolledAt, for every row.
UsersGET(dbThrows) ==
  /\ users' = users
  /\ last' = [NoRequest EXCEPT !.op = "list",
                !.threw = dbThrows,
                !.resp = IF dbThrows THEN Response(500, FALSE, "Server error")
                         ELSE [Response(200, TRUE, "") EXCEPT
                                 !.has = {"ok", "users"},
                                 !.listed = {id \in 1..Len(users) :
                                               ~users[id].faceEnrolledAt.isNull}]]

\* -------------------------------------------------- POST /api/face/enroll
EnrollMissing(userId, faceDescriptor) == Falsy(userId) \/ Falsy(faceDescriptor)

\* Mutant: the length test is dropped.
EnrollFormatOkAnyArray(faceDescriptor) == IsArray(faceDescriptor)

EnrollFormatOk(faceDescriptor) ==
  IsArray(faceDescriptor) /\ faceDescriptor.items.length = DESCRIPTOR_LENGTH

\* Mutant: the id one beyond the rows passes.
UserExistsOffByOne(table, id) == id \in 1..(Len(table) + 1)

\* prisma.user.findUnique({ where: { id } }) finds a row.
UserExists(table, id) == id \in 1..Len(table)

\* Mutant: an embedding that is already stored is kept (first writer wins).
EnrollUpdateIfEmpty(table, id, faceDescriptor, now) ==
  IF ~table[id].faceDescriptor.isNull THEN table
  ELSE [table EXCEPT ![id].faceDescriptor = Text(JSONstringify(faceDescriptor.items)),
                     ![id].faceEnrolledAt = Date(now)]

\* Mutant: the update writes the embedding and forgets the timestamp.
EnrollUpdateNoStamp(table, id, faceDescriptor, now) ==
  [table EXCEPT ![id].faceDescriptor = Text(JSONstringify(faceDescriptor.items))]

\* prisma.user.update({ where: { id }, data: { faceDescriptor, faceEnrolledAt } })
EnrollUpdate(table, id, faceDescriptor, now) ==
  [table EXCEPT ![id].faceDescriptor = Text(JSONstringify(faceDescriptor.items)),
                ![id].faceEnrolledAt = Date(now)]

\* dbThrows: a prisma call of the request rejects (the database cannot be
\* reached); the catch block answers.
EnrollPOST(userId, faceDescriptor, now, dbThrows) ==
  LET req == [NoRequest EXCEPT !.op = "enroll", !.userId = userId,
                               !.faceDescriptor = faceDescriptor]
  IN
  IF EnrollMissing(userId, faceDescriptor)
  THEN /\ users' = users
       /\ last' = [req EXCEPT !.resp = Response(400, FALSE, "Missing userId or faceDescriptor")]
  ELSE IF ~EnrollFormatOk(faceDescriptor)
  THEN /\ users' = users
       /\ last' = [req EXCEPT !.resp = Response(400, FALSE, "Invalid face descriptor format")]
  ELSE IF userId.kind # "number" \/ dbThrows
  THEN \* findUnique also rejects an id that is not an Int.
       /\ users' = users
       /\ last' = [req EXCEPT !.threw = TRUE,
                     !.resp = Response(500, FALSE, "Server error during face enrollment")]
  ELSE IF ~UserExists(users, userId.n)
  THEN /\ users' = users
       /\ last' = [req EXCEPT !.resp = Response(404, FALSE, "User not found")]
  ELSE /\ users' = EnrollUpdate(users, userId.n, faceDescriptor, now)
       /\ last' = [req EXCEPT !.resp = [Response(200, TRUE, "") EXCEPT !.has = {"ok", "message"}]]

\* ----------------------------------------------- POST /api/face/recognize
RecognizeMissing(faceDescriptor) == Falsy(faceDescriptor)

\* Mutant: longer arrays pass.
RecognizeFormatOkAtLeast(faceDescriptor) ==
  IsArray(faceDescriptor) /\ faceDescriptor.items.length >= DESCRIPTOR_LENGTH

RecognizeFormatOk(faceDescriptor) ==
  IsArray(faceDescriptor) /\ faceDescriptor.items.length = DESCRIPTOR_LENGTH

\* The loop over the rows findMany returned, ids in the order `order`, from
\* position i on with the best match so far.  A stored text is never the
\* empty string, so no row is skipped by the !user.faceDescriptor test.
\* The result is the best match, and whether euclideanDistance threw.
RECURSIVE FindBest(_, _, _, _, _)
FindBest(table, probe, order, i, best) ==
  IF i > Len(order) THEN [threw |-> FALSE, bestMatch |-> best]
  ELSE LET user == table[order[i]]
           distance == DistanceToStored(probe, user.faceDescriptor.text)
       IN IF distance.k = "throw" THEN [threw |-> TRUE, bestMatch |-> best]
          ELSE IF best.isNull \/ Less(distance, best.distance)
          THEN FindBest(table, probe, order, i + 1,
                        [isNull |-> FALSE, userId |-> order[i],
                         username |-> user.username, role |-> user.role,
                         distance |-> distance])
          ELSE FindBest(table, probe, order, i + 1, best)

\* bestMatch && bestMatch.distance < MATCH_THRESHOLD
IsMatch(bestMatch) == ~bestMatch.isNull /\ BelowThreshold(bestMatch.distance)

\* Mutant: the session cookie is set for the best candidate before the
\* threshold is looked at.
RecognizeResultCookieFirst(bestMatch) ==
  IF IsMatch(bestMatch)
  THEN [Response(200, TRUE, "") EXCEPT
          !.has = {"ok", "matched", "user", "confidence", "distance"},
          !.matched = TRUE,
          !.user = [id |-> bestMatch.userId, username |-> bestMatch.username,
                    role |-> bestMatch.role],
          !.confidence = JSONnumber(Confidence(bestMatch.distance)),
          !.distance = bestMatch.distance,
          !.setCookie = String(bestMatch.userId)]
  ELSE [Response(200, TRUE, "Face not recognized") EXCEPT
          !.has = {"ok", "matched", "error", "confidence"},
          !.matched = FALSE,
          !.confidence = IF bestMatch.isNull THEN Num(0)
                         ELSE JSONnumber(Confidence(bestMatch.distance)),
          !.setCookie = IF bestMatch.isNull THEN "" ELSE String(bestMatch.userId)]

\* The response after the loop.
RecognizeResult(bestMatch) ==
  IF IsMatch(bestMatch)
  THEN [Response(200, TRUE, "") EXCEPT
          !.has = {"ok", "matched", "user", "confidence", "distance"},
          !.matched = TRUE,
          !.user = [id |-> bestMatch.userId, username |-> bestMatch.username,
                    role |-> bestMatch.role],
          !.confidence = JSONnumber(Confidence(bestMatch.distance)),
          !.distance = bestMatch.distance,
          !.setCookie = String(bestMatch.userId)]
  ELSE [Response(200, TRUE, "Face not recognized") EXCEPT
          !.has = {"ok", "matched", "error", "confidence"},
          !.matched = FALSE,
          !.confidence = IF bestMatch.isNull THEN Num(0)
                         ELSE JSONnumber(Confidence(bestMatch.distance))]

\* The response when findMany returned no row.
NoEnrolledFaces == Response(404, FALSE, "No enrolled faces found")

\* The request as the handler leaves it: its locals and its response.
RecognizeAnswer(table, faceDescriptor, order, dbThrows) ==
  LET req == [NoRequest EXCEPT !.op = "recognize", !.faceDescriptor = faceDescriptor]
  IN
  IF RecognizeMissing(faceDescriptor)
  THEN [req EXCEPT !.resp = Response(400, FALSE, "Missing faceDescriptor")]
  ELSE IF ~RecognizeFormatOk(faceDescriptor)
  THEN [req EXCEPT !.resp = Response(400, FALSE, "Invalid face descriptor format")]
  ELSE IF dbThrows
  THEN [req EXCEPT !.threw = TRUE,
          !.resp = Response(500, FALSE, "Server error during face recognition")]
  ELSE IF Len(order) = 0
  THEN [req EXCEPT !.resp = NoEnrolledFaces]
  ELSE LET scan == FindBest(table, faceDescriptor.items, order, 1, NoBest)
       IN IF scan.threw
          THEN [req EXCEPT !.order = order, !.threw = TRUE,
                  !.resp = Response(500, FALSE, "Server error during face recognition")]
          ELSE [req EXCEPT !.order = order, !.bestMatch = scan.bestMatch,
                  !.resp = RecognizeResult(scan.bestMatch)]

\* Mutant: a match refreshes the stored embedding with the probe.
RecognizePOSTRefreshing(faceDescriptor, order, dbThrows) ==
  LET answer == RecognizeAnswer(users, faceDescriptor, order, dbThrows)
  IN /\ last' = answer
     /\ users' = IF IsMatch(answer.bestMatch)
                 THEN EnrollUpdate(users, answer.bestMatch.userId, faceDescriptor, 1)
                 ELSE users

\* The route calls no prisma write: the table is left as it is.
RecognizePOST(faceDescriptor, order, dbThrows) ==
  /\ users' = users
  /\ last' = RecognizeAnswer(users, faceDescriptor, order, dbThrows)

\* --------------------------------------- GET /api/face/enroll?userId=...
\* The userId query parameter is a string or absent: Undefined when absent,
\* NumberVal(n) for the decimal text of n, StringVal for a text parseInt
\* reads as NaN.  Only an absent (or empty) parameter is falsy: "0" is not.
StatusMissing(userId) == userId.kind = "undefined"

\* enrolled: !!user.faceEnrolledAt (a Date object is truthy whatever its time).
faceEnrolled(user) == ~user.faceEnrolledAt.isNull

EnrollGET(userId, dbThrows) ==
  LET req == [NoRequest EXCEPT !.op = "status", !.userId = userId]
  IN
  /\ users' = users
  /\ IF StatusMissing(userId)
     THEN last' = [req EXCEPT !.resp = Response(400, FALSE, "Missing userId")]
     ELSE IF userId.kind # "number" \/ dbThrows
     THEN last' = [req EXCEPT !.threw = TRUE, !.resp = Response(500, FALSE, "Server error")]
     ELSE IF ~UserExists(users, userId.n)
     THEN last' = [req EXCEPT !.resp = Response(404, FALSE, "User not found")]
     ELSE last' = [req EXCEPT !.resp = [Response(200, TRUE, "") EXCEPT
                                          !.has = {"ok", "enrolled", "enrolledAt"},
                                          !.enrolled = faceEnrolled(users[userId.n])]]

\* ------------------------------------------------------- the state machine
\* Requests handled one after the other; no page is capturing and no request
\* is in flight.
Init ==
  /\ users = <<>>
  /\ last = NoRequest
  /\ capture = NoCapture
  /\ calls = NoCalls
  /\ ElsewhereIdle

CreateUser ==
  /\ \E u \in UsernameInputs(users), p \in Passwords, r \in Roles : UsersPOST(u, p, r)
  /\ UNCHANGED <<capture, calls, elsewhere>>

Enroll ==
  /\ \E id \in UserIdInputs, d \in DescriptorInputs, now \in Times, dbThrows \in BOOLEAN :
       EnrollPOST(id, d, now, dbThrows)
  /\ UNCHANGED <<capture, calls, elsewhere>>

Recognize ==
  /\ \E d \in DescriptorInputs, order \in Orders(Enrolled(users)), dbThrows \in BOOLEAN :
       RecognizePOST(d, order, dbThrows)
  /\ UNCHANGED <<capture, calls, elsewhere>>

EnrollStatus ==
  /\ \E id \in UserIdInputs \cup {Undefined}, dbThrows \in BOOLEAN : EnrollGET(id, dbThrows)
  /\ UNCHANGED <<capture, calls, elsewhere>>

ListUsers ==
  /\ \E dbThrows \in BOOLEAN : UsersGET(dbThrows)
  /\ UNCHANGED <<capture, calls, elsewhere>>

Next == CreateUser \/ Enroll \/ Recognize \/ EnrollStatus \/ ListUsers

Spec == Init /\ [][Next]_vars

\* ------------------------------------------- the matcher on enrolled tables
\* Recognize requests against tables of up to MatchRows identities, each
\* enrolled (by the update of the enroll route) with one of MatchStored.
MatchStored == {dZero, dFar, dStr}
MatchProbes == {dZero, dNear, dFar, dOnes}

BlankTable(n) == [k \in 1..n |-> NewUser(Name(k), "1234", "Pilot")]

\* The table after a successful enroll of every row k with f[k].
EnrolledTable(f) ==
  [k \in DOMAIN f |-> EnrollUpdate(BlankTable(Len(f)), k, ArrayOf(f[k]), 1)[k]]

MatchTables ==
  UNION {{EnrolledTable(f) : f \in [1..n -> MatchStored]} : n \in 1..MatchRows}

\* Seven accounts, of which the seventh alone enrolled, with zeros.
SevenUsers == EnrollUpdate(BlankTable(7), 7, ArrayOf(dZero), 1)

MatchInit ==
  /\ users \in MatchTables \cup {SevenUsers}
  /\ last = NoRequest
  /\ capture = NoCapture
  /\ calls = NoCalls
  /\ ElsewhereIdle

Match ==
  /\ \E d \in MatchProbes, order \in Orders(Enrolled(users)) :
       RecognizePOST(ArrayOf(d), order, FALSE)
  /\ UNCHANGED <<capture, calls, elsewhere>>

MatchNext == Match

MatchSpec == MatchInit /\ [][MatchNext]_vars

\* -------------------------- the matcher on embeddings of any length
\* The faceDescriptor column is a text: the rows findMany returns hold
\* whatever was written to it, by the enroll route or by anything else that
\* writes the database (a seed, an earlier version, an administrator).  Here
\* the table is an input of the recognize route: up to StoreRows rows, each
\* with the JSON text of an array of 127, 128 or 129 numbers.
StoreArrays == {dZero, dFar, dShort, dLong}
StoreProbes == {dZero, dNear, dOnes}

\* A row whose faceDescriptor column holds the text of the array a.
StoredRow(k, a) ==
  [NewUser(Name(k), "1234", "Pilot") EXCEPT
     !.faceDescriptor = Text(JSONstringify(a)), !.faceEnrolledAt = Date(1)]

StoreTables ==
  UNION {{[k \in 1..n |-> StoredRow(k, f[k])] : f \in [1..n -> StoreArrays]} :
           n \in 1..StoreRows}

StoreInit ==
  /\ users \in StoreTables
  /\ last = NoRequest
  /\ capture = NoCapture
  /\ calls = NoCalls
  /\ ElsewhereIdle

StoreMatch ==
  /\ \E d \in StoreProbes, order \in Orders(Enrolled(users)), dbThrows \in BOOLEAN :
       RecognizePOST(ArrayOf(d), order, dbThrows)
  /\ UNCHANGED <<capture, calls, elsewhere>>

StoreNext == StoreMatch

StoreSpec == StoreInit /\ [][StoreNext]_vars

\* ------------------------------------------- capture in the browser pages
\* captureFaceDescriptor of useFaceRecognition, called by handleCapture of the
\* enroll page (for the selected user, id 1) and by handleFaceRecognition of
\* the login page.  A step is what runs between two tasks of the event loop:
\* the return of captureFaceDescriptor and the lines of the page after its
\* await run in one step.
VideoStates == {"ready", "notReady", "null"}

\* return { success: false, error }
Failure(c, error) == [c EXCEPT !.result = "failure", !.descriptor = FALSE, !.error = error]

\* Mutant: with several faces in the frame the first detection is taken.
CaptureResultFirstFace(c, how, n) ==
  IF how # "resolved" THEN Failure(c, "Face detection failed. Please try again.")
  ELSE IF n = 0
  THEN Failure(c, "No face detected. Please position your face in the frame.")
  ELSE [c EXCEPT !.result = "success", !.descriptor = TRUE]

\* captureFaceDescriptor after the race settled: how is "resolved" (with n
\* detections), "rejected" (the detection threw) or "timeout" (the timeout
\* promise rejected); both rejections end in the catch block.
CaptureResult(c, how, n) ==
  IF how # "resolved" THEN Failure(c, "Face detection failed. Please try again.")
  ELSE IF n = 0
  THEN Failure(c, "No face detected. Please position your face in the frame.")
  ELSE IF n > 1
  THEN Failure(c, "Multiple faces detected. Please ensure only one person is in frame.")
  ELSE [c EXCEPT !.result = "success", !.descriptor = TRUE]

\* Mutant: no timeout is set up.
timeoutPromiseNeverArmed == "off"

\* new Promise((_, reject) => setTimeout(() => reject(...), 10000))
timeoutPromise == "armed"

\* captureFaceDescriptor up to its await: the early returns, or the timer
\* armed and the detection started.
captureFaceDescriptor(c, video, modelsLoaded) ==
  IF video = "null" THEN Failure(c, "Video element not available")
  ELSE IF ~modelsLoaded THEN Failure(c, "Face recognition models not loaded")
  ELSE IF video = "notReady"
  THEN Failure(c, "Video stream not ready. Please wait a moment and try again.")
  ELSE [c EXCEPT !.pc = "detecting", !.timer = timeoutPromise, !.detection = "pending"]

\* The page after `await captureFaceDescriptor()`: the failure is shown and
\* the handler returns, or the descriptor is sent.
AfterCapture(c) ==
  IF c.result = "none" THEN c
  ELSE IF c.result # "success" \/ ~c.descriptor
  THEN [c EXCEPT !.pc = "error", !.step = IF c.page = "enroll" THEN "error" ELSE @]
  ELSE [c EXCEPT !.pc = "sending", !.sent = TRUE]

\* handleCapture of the enroll page, up to its first await.
HandleCapture ==
  /\ capture.page = "enroll" /\ capture.pc = "idle"
  /\ capture.selectedUser # 0
  /\ capture' = [capture EXCEPT !.pc = "progress", !.step = "capturing"]
  /\ UNCHANGED <<users, last, calls, elsewhere>>

\* handleFaceRecognition of the login page, up to its first await.
HandleFaceRecognition ==
  /\ capture.page = "login" /\ capture.pc = "idle"
  /\ capture' = [capture EXCEPT !.pc = "progress"]
  /\ UNCHANGED <<users, last, calls, elsewhere>>

\* The handler calls captureFaceDescriptor.  After handleReset the stream is
\* stopped and the video element is unmounted: the video is not ready.
CaptureCall ==
  /\ capture.pc = "progress"
  /\ \E video \in VideoStates, modelsLoaded \in BOOLEAN :
       /\ capture.cancelledAt # "" => video # "ready"
       /\ capture' = AfterCapture(captureFaceDescriptor(capture, video, modelsLoaded))
  /\ UNCHANGED <<users, last, calls, elsewhere>>

\* The detection settles, at any time and also after the timeout won the race.
DetectionSettles ==
  /\ capture.detection = "pending"
  /\ \E how \in {"resolved", "rejected"}, n \in 0..MaxFaces :
       /\ how = "rejected" => n = 0
       /\ LET c == [capture EXCEPT !.detection = how, !.faces = n]
          IN capture' = IF capture.pc = "detecting"
                        THEN AfterCapture(CaptureResult([c EXCEPT !.race = "detection"], how, n))
                        ELSE c
  /\ UNCHANGED <<users, last, calls, elsewhere>>

\* The 10 second timer fires, also when the detection already won the race.
TimerFires ==
  /\ capture.timer = "armed"
  /\ LET c == [capture EXCEPT !.timer = "fired"]
     IN capture' = IF capture.pc = "detecting"
                   THEN AfterCapture(CaptureResult([c EXCEPT !.race = "timeout"], "timeout", 0))
                   ELSE c
  /\ UNCHANGED <<users, last, calls, elsewhere>>

\* handleReset of the enroll page (the Cancel button shown while the step is
\* "capturing", or the voice command): the page state is reset; the handler
\* that is awaiting goes on.
Cancel ==
  /\ capture.page = "enroll"
  /\ capture.pc \in {"progress", "detecting", "sending"}
  /\ capture.cancelledAt = ""
  /\ capture' = [capture EXCEPT !.cancelledAt = capture.pc,
                                !.step = "registration-form", !.selectedUser = 0]
  /\ UNCHANGED <<users, last, calls, elsewhere>>

\* The server handles the request the page sent, with the descriptor of the
\* one detected face (descriptorToArray of a Float32Array: finite numbers),
\* for the user the handler was created with; the enroll page then shows
\* the outcome.
Deliver ==
  /\ capture.pc = "sending"
  /\ IF capture.page = "enroll"
     THEN \E now \in Times, dbThrows \in BOOLEAN :
            EnrollPOST(NumberVal(1), ArrayOf(dNear), now, dbThrows)
     ELSE \E order \in Orders(Enrolled(users)), dbThrows \in BOOLEAN :
            RecognizePOST(ArrayOf(dNear), order, dbThrows)
  /\ capture' = [capture EXCEPT !.pc = "done",
                    !.step = IF capture.page # "enroll" THEN @
                             ELSE IF last'.resp.ok THEN "face-success" ELSE "error"]
  /\ UNCHANGED <<calls, elsewhere>>

\* The page is used again ("Try Again" of the enroll page, the next detected
\* face of the login page) once the previous timer and detection are over.
Retry ==
  /\ capture.pc \in {"error", "done"}
  /\ capture.timer # "armed" /\ capture.detection # "pending"
  /\ capture' = CaptureIdle(capture.page)
  /\ UNCHANGED <<users, last, calls, elsewhere>>

CaptureInit ==
  /\ users \in {BlankTable(1), EnrolledTable(<<dZero>>)}
  /\ last = NoRequest
  /\ capture \in {CaptureIdle("enroll"), CaptureIdle("login")}
  /\ calls = NoCalls
  /\ ElsewhereIdle

CaptureNext ==
  \/ HandleCapture
  \/ HandleFaceRecognition
  \/ CaptureCall
  \/ DetectionSettles
  \/ TimerFires
  \/ Cancel
  \/ Deliver
  \/ Retry

CaptureSpec == CaptureInit /\ [][CaptureNext]_vars

\* setTimeout fires: an armed timer does not stay armed for ever.
CaptureLiveSpec == CaptureSpec /\ WF_vars(TimerFires)

\* --------------------------------------------- requests handled concurrently
\* The enroll and recognize handlers cut at their awaits of prisma: between
\* two awaits a handler runs alone (one JavaScript thread), and each prisma
\* call is one statement of the database.  Calls 1..ConcEnrolls are enroll
\* requests for identity 1, call ConcEnrolls + 1 is a recognize request.
\*   pc        idle, find (awaiting findUnique), update (awaiting update),
\*             read (awaiting findMany), scan (findMany returned), done
\*   user      the row findUnique returned
\*   table     the rows findMany returned (the local `users` of the handler)
\*   wroteLast this call's update is the latest one executed
EnrollCalls == 1..ConcEnrolls
RecognizeCall == ConcEnrolls + 1
ConcDescriptors == {dNear, dFar, dInf}
ConcProbes == {dZero, dNear}

IdleCall(kind) ==
  [kind |-> kind, pc |-> "idle", userId |-> Undefined, faceDescriptor |-> Undefined,
   now |-> 0, user |-> NewUser(Name(0), "", ""), table |-> <<>>, order |-> <<>>,
   bestMatch |-> NoBest, resp |-> Response(0, FALSE, ""), wroteLast |-> FALSE]

\* POST /api/face/enroll up to `await prisma.user.findUnique`.
EnrollBegin(i) ==
  /\ calls[i].kind = "enroll" /\ calls[i].pc = "idle"
  /\ \E d \in ConcDescriptors :
       LET userId == NumberVal(1)
           faceDescriptor == ArrayOf(d)
           c == [calls[i] EXCEPT !.userId = userId, !.faceDescriptor = faceDescriptor]
       IN calls' = [calls EXCEPT ![i] =
            IF EnrollMissing(userId, faceDescriptor)
            THEN [c EXCEPT !.pc = "done",
                    !.resp = Response(400, FALSE, "Missing userId or faceDescriptor")]
            ELSE IF ~EnrollFormatOk(faceDescriptor)
            THEN [c EXCEPT !.pc = "done",
                    !.resp = Response(400, FALSE, "Invalid face descriptor format")]
            ELSE [c EXCEPT !.pc = "find"]]
  /\ UNCHANGED <<users, last, capture, elsewhere>>

\* findUnique runs on the table as it is now; the handler goes on to
\* `await prisma.user.update`, its arguments (new Date()) evaluated.
EnrollFind(i) ==
  /\ calls[i].kind = "enroll" /\ calls[i].pc = "find"
  /\ \E now \in Times :
       calls' = [calls EXCEPT ![i] =
         IF ~UserExists(users, calls[i].userId.n)
         THEN [@ EXCEPT !.pc = "done", !.resp = Response(404, FALSE, "User not found")]
         ELSE [@ EXCEPT !.pc = "update", !.user = users[calls[i].userId.n], !.now = now]]
  /\ UNCHANGED <<users, last, capture, elsewhere>>

\* The update statement runs; the handler answers 200.
EnrollWrite(i) ==
  /\ calls[i].kind = "enroll" /\ calls[i].pc = "update"
  /\ users' = EnrollUpdate(users, calls[i].userId.n, calls[i].faceDescriptor, calls[i].now)
  /\ calls' = [j \in DOMAIN calls |->
                IF j = i
                THEN [calls[j] EXCEPT !.pc = "done", !.wroteLast = TRUE,
                        !.resp = [Response(200, TRUE, "") EXCEPT !.has = {"ok", "message"}]]
                ELSE [calls[j] EXCEPT !.wroteLast = FALSE]]
  /\ UNCHANGED <<last, capture, elsewhere>>

\* POST /api/face/recognize up to `await prisma.user.findMany`.
RecognizeBegin(i) ==
  /\ calls[i].kind = "recognize" /\ calls[i].pc = "idle"
  /\ \E d \in ConcProbes :
       LET faceDescriptor == ArrayOf(d)
           c == [calls[i] EXCEPT !.faceDescriptor = faceDescriptor]
       IN calls' = [calls EXCEPT ![i] =
            IF RecognizeMissing(faceDescriptor)
            THEN [c EXCEPT !.pc = "done", !.resp = Response(400, FALSE, "Missing faceDescriptor")]
            ELSE IF ~RecognizeFormatOk(faceDescriptor)
            THEN [c EXCEPT !.pc = "done",
                    !.resp = Response(400, FALSE, "Invalid face descriptor format")]
            ELSE [c EXCEPT !.pc = "read"]]
  /\ UNCHANGED <<users, last, capture, elsewhere>>

\* findMany runs on the table as it is now and returns its enrolled rows.
RecognizeRead(i) ==
  /\ calls[i].kind = "recognize" /\ calls[i].pc = "read"
  /\ \E order \in Orders(Enrolled(users)) :
       calls' = [calls EXCEPT ![i] =
         IF Len(order) = 0
         THEN [@ EXCEPT !.pc = "done", !.resp = NoEnrolledFaces]
         ELSE [@ EXCEPT !.pc = "scan", !.table = users, !.order = order]]
  /\ UNCHANGED <<users, last, capture, elsewhere>>

\* Mutant: the loop reads each row again from the table as it is now.
ScanTableLive(c) == IF c.kind = "recognize" THEN users ELSE c.table

\* The rows the loop iterates: the array findMany returned.
ScanTable(c) == c.table

\* The loop and the response (no await in between).
RecognizeScan(i) ==
  /\ calls[i].kind = "recognize" /\ calls[i].pc = "scan"
  /\ LET scan == FindBest(ScanTable(calls[i]), calls[i].faceDescriptor.items,
                          calls[i].order, 1, NoBest)
     IN calls' = [calls EXCEPT ![i] =
          IF scan.threw
          THEN [@ EXCEPT !.pc = "done",
                  !.resp = Response(500, FALSE, "Server error during face recognition")]
          ELSE [@ EXCEPT !.pc = "done", !.bestMatch = scan.bestMatch,
                  !.resp = RecognizeResult(scan.bestMatch)]]
  /\ UNCHANGED <<users, last, capture, elsewhere>>

ConcInit ==
  /\ users \in {BlankTable(1), EnrolledTable(<<dZero>>), EnrolledTable(<<dFar, dZero>>)}
  /\ last = NoRequest
  /\ capture = NoCapture
  /\ calls = [i \in 1..RecognizeCall |->
                IF i \in EnrollCalls THEN IdleCall("enroll") ELSE IdleCall("recognize")]
  /\ ElsewhereIdle

ConcNext ==
  \E i \in 1..RecognizeCall :
    \/ EnrollBegin(i)
    \/ EnrollFind(i)
    \/ EnrollWrite(i)
    \/ RecognizeBegin(i)
    \/ RecognizeRead(i)
    \/ RecognizeScan(i)

ConcSpec == ConcInit /\ [][ConcNext]_vars

\* ------------------------------------------------- sessions of one client
\* The middleware, POST /api/auth/login, POST /api/auth/logout and the
\* recognize route, called by one browser that keeps the cookies the
\* responses set, next to requests whose Cookie header is made up.
PUBLIC_PATHS ==
  {"/login", "/enroll", "/api/auth/login", "/api/auth/logout", "/api/face/enroll",
   "/api/face/recognize", "/api/users", "/_next", "/favicon.ico", "/models"}

\* pathname.startsWith(p)
startsWith(pathname, p) ==
  Len(p) <= Len(pathname) /\ SubSeq(pathname, 1, Len(p)) = p

\* config.matcher: the middleware runs for every path but those that begin
\* with /_next/static, /_next/image or /favicon.ico.
matcher(pathname) ==
  ~\E p \in {"/_next/static", "/_next/image", "/favicon.ico"} : startsWith(pathname, p)

\* Mutant: a cookie that is present passes, whatever its value.
middlewareAnyCookie(pathname, cookie) ==
  IF \E p \in PUBLIC_PATHS : startsWith(pathname, p)
  THEN [NoNav EXCEPT !.pathname = pathname, !.sent = cookie, !.answer = "next"]
  ELSE IF ~cookie.has
  THEN [NoNav EXCEPT !.pathname = pathname, !.sent = cookie, !.answer = "redirect",
                     !.location = "/login", !.from = pathname]
  ELSE [NoNav EXCEPT !.pathname = pathname, !.sent = cookie, !.answer = "next"]

\* middleware(req): cookie is the sessionUserId cookie of the request;
\* !sessionUserId holds of a missing cookie and of an empty value.
middleware(pathname, cookie) ==
  IF \E p \in PUBLIC_PATHS : startsWith(pathname, p)
  THEN [NoNav EXCEPT !.pathname = pathname, !.sent = cookie, !.answer = "next"]
  ELSE IF ~cookie.has \/ cookie.value = ""
  THEN [NoNav EXCEPT !.pathname = pathname, !.sent = cookie, !.answer = "redirect",
                     !.location = "/login", !.from = pathname]
  ELSE [NoNav EXCEPT !.pathname = pathname, !.sent = cookie, !.answer = "next"]

\* A request as the server answers it: through the middleware where the
\* matcher selects it.
Serve(pathname, cookie) ==
  IF matcher(pathname) THEN middleware(pathname, cookie)
  ELSE [NoNav EXCEPT !.pathname = pathname, !.sent = cookie, !.answer = "next"]

\* The dashboard and the routes that command the robot or read it.
RobotPaths == {"/", "/api/drive", "/api/mode", "/api/buzzer", "/api/status"}

\* Paths a browser asks for.
Pathnames ==
  RobotPaths \cup
  {"/api", "/log", "/api/health", "/api/camera/panoramic",
   "/login", "/enroll", "/enrollments", "/api/users", "/api/face/recognize",
   "/_next/static/chunk.js", "/favicon.ico", "/models/manifest.json"}

\* Cookie headers of requests that do not come from the browser of the model.
CookieHeaders == {NoCookie, Cookie(""), Cookie("1"), Cookie("nobody")}

\* What the browser does with the Set-Cookie header of a response: a cookie
\* that expired is removed, a cookie that is set replaces the one held.
ApplySetCookie(jar, resp) ==
  IF resp.cookieExpired THEN NoCookie
  ELSE IF resp.setCookie # "" THEN Cookie(resp.setCookie)
  ELSE jar

\* prisma.user.findUnique({ where: { username } }): the ids of the rows found.
ByUsername(table, username) == {id \in 1..Len(table) : table[id].username = username}

\* Mutant: the cookie is set as soon as the user is found, before the
\* password is compared.
LoginPOSTCookieFirst(username, password, dbThrows) ==
  LET req == [NoRequest EXCEPT !.op = "login", !.username = username,
                               !.password = password]
      found == ByUsername(users, username)
  IN
  /\ users' = users
  /\ IF username = Name(0) \/ password = ""
     THEN last' = [req EXCEPT !.resp = Response(400, FALSE, "Missing credentials")]
     ELSE IF dbThrows
     THEN last' = [req EXCEPT !.threw = TRUE, !.resp = Response(500, FALSE, "Server error")]
     ELSE IF found = {}
     THEN last' = [req EXCEPT !.resp = Response(401, FALSE, "Invalid username or password")]
     ELSE LET id == CHOOSE i \in found : TRUE
          IN IF users[id].password # password
             THEN last' = [req EXCEPT
                             !.resp = [Response(401, FALSE, "Invalid username or password")
                                         EXCEPT !.setCookie = String(id)]]
             ELSE last' = [req EXCEPT !.resp = [Response(200, TRUE, "") EXCEPT
                              !.has = {"ok", "user"},
                              !.user = [id |-> id, username |-> users[id].username,
                                        role |-> users[id].role],
                              !.setCookie = String(id)]]

\* POST /api/auth/login.  Name(0) is the empty username: it and the empty
\* password are falsy.
LoginPOST(username, password, dbThrows) ==
  LET req == [NoRequest EXCEPT !.op = "login", !.username = username,
                               !.password = password]
      found == ByUsername(users, username)
  IN
  /\ users' = users
  /\ IF username = Name(0) \/ password = ""
     THEN last' = [req EXCEPT !.resp = Response(400, FALSE, "Missing credentials")]
     ELSE IF dbThrows
     THEN last' = [req EXCEPT !.threw = TRUE, !.resp = Response(500, FALSE, "Server error")]
     ELSE IF found = {} \/ users[CHOOSE i \in found : TRUE].password # password
     THEN last' = [req EXCEPT !.resp = Response(401, FALSE, "Invalid username or password")]
     ELSE LET id == CHOOSE i \in found : TRUE
          IN last' = [req EXCEPT !.resp = [Response(200, TRUE, "") EXCEPT
                         !.has = {"ok", "user"},
                         !.user = [id |-> id, username |-> users[id].username,
                                   role |-> users[id].role],
                         !.setCookie = String(id)]]

\* POST /api/auth/logout: the cookie is set to "" and expires at new Date(0).
LogoutPOST ==
  /\ users' = users
  /\ last' = [NoRequest EXCEPT !.op = "logout",
                !.resp = [Response(200, TRUE, "") EXCEPT !.has = {"ok"},
                                                         !.cookieExpired = TRUE]]

\* What login requests carry.
LoginNames == {Name(0), Name(1), Name(2), Name(3)}
LoginPasswords == {"", "1234", "0000"}
SessionProbes == {dZero, dNear, dFar}

\* The browser sends a request and keeps the cookie of the response.  The
\* history records a login answered ok: true and a recognize answered
\* matched: true, and forgets them at a logout.
Login ==
  /\ \E u \in LoginNames, p \in LoginPasswords, dbThrows \in BOOLEAN : LoginPOST(u, p, dbThrows)
  /\ client' = [client EXCEPT
                  !.cookie = ApplySetCookie(client.cookie, last'.resp),
                  !.session = IF last'.resp.ok THEN String(last'.resp.user.id) ELSE @]
  /\ UNCHANGED <<capture, calls, voice, poll, drive>>

FaceLogin ==
  /\ \E d \in SessionProbes, order \in Orders(Enrolled(users)), dbThrows \in BOOLEAN :
       RecognizePOST(ArrayOf(d), order, dbThrows)
  /\ client' = [client EXCEPT
                  !.cookie = ApplySetCookie(client.cookie, last'.resp),
                  !.session = IF last'.resp.matched THEN String(last'.resp.user.id) ELSE @]
  /\ UNCHANGED <<capture, calls, voice, poll, drive>>

Logout ==
  /\ LogoutPOST
  /\ client' = [client EXCEPT
                  !.cookie = ApplySetCookie(client.cookie, last'.resp),
                  !.session = ""]
  /\ UNCHANGED <<capture, calls, voice, poll, drive>>

\* The browser asks for a page or a route with the cookies it holds.
Navigate ==
  /\ \E pathname \in Pathnames :
       client' = [client EXCEPT !.nav = Serve(pathname, client.cookie)]
  /\ UNCHANGED <<users, last, capture, calls, voice, poll, drive>>

\* A request of another program, with a Cookie header of its own: the
\* answer is recorded, the jar of the browser is not touched.
ForeignRequest ==
  /\ \E pathname \in Pathnames, cookie \in CookieHeaders :
       client' = [client EXCEPT !.nav = Serve(pathname, cookie)]
  /\ UNCHANGED <<users, last, capture, calls, voice, poll, drive>>

SessionInit ==
  /\ users \in {BlankTable(2), EnrolledTable(<<dZero, dFar>>)}
  /\ last = NoRequest
  /\ capture = NoCapture
  /\ calls = NoCalls
  /\ client = NoClient
  /\ voice = NoVoice
  /\ poll = NoPoll
  /\ drive = NoDrive

SessionNext == Login \/ FaceLogin \/ Logout \/ Navigate \/ ForeignRequest

SessionSpec == SessionInit /\ [][SessionNext]_vars

\* ------------------------------------------------------ the voice assistant
\* The VoiceAssistant of lib/voiceAssistant.ts: its public methods, the
\* handlers it sets on the SpeechRecognition object and the callback of its
\* restart timers, each a step.  The recognizer follows the Web Speech API:
\* start() on a recognizer that is started throws InvalidStateError, an
\* error event is followed by the end event, stop() ends the session.
\* recognition.start() called with the recognizer in state rec.
recognitionStart(v) ==
  IF v.rec = "idle" THEN [v EXCEPT !.rec = "running", !.startCalled = "idle"]
  ELSE IF v.rec = "running" THEN [v EXCEPT !.startCalled = "running"]
  ELSE [v EXCEPT !.startCalled = "ending"]

\* recognition.stop()
recognitionStop(v) == IF v.rec = "running" THEN [v EXCEPT !.rec = "stopping"] ELSE v

\* restartListening(): a timer is set if the assistant is listening and
\* enabled.
restartListening(v) ==
  IF v.recognition /\ v.isListening /\ v.isEnabled
  THEN [v EXCEPT !.timers = @ + 1]
  ELSE v

\* Mutant: the callback of the timer starts the recognizer without looking
\* at isListening.
timerStartsAlways(v) == TRUE

\* if (this.isListening) in the callback of the timer
timerStarts(v) == v.isListening

\* startListening()
startListening(v) ==
  IF ~v.recognition \/ ~v.isEnabled THEN v
  ELSE recognitionStart([v EXCEPT !.isListening = TRUE, !.stopped = FALSE])

\* stopListening()
stopListening(v) ==
  LET w == [v EXCEPT !.isListening = FALSE, !.stopped = TRUE]
  IN IF v.recognition THEN recognitionStop(w) ELSE w

\* setEnabled(enabled): disabling also cancels the speech.
setEnabled(v, enabled) ==
  LET w == [v EXCEPT !.isEnabled = enabled]
  IN IF ~enabled THEN [stopListening(w) EXCEPT !.speaking = FALSE] ELSE w

\* speak(text): nothing is said while the assistant is disabled.
speak(v) == IF ~v.isEnabled THEN v ELSE [v EXCEPT !.speaking = TRUE]

\* A step begins: the start() of the step before is forgotten.
Step(v, name) == [v EXCEPT !.startCalled = "no", !.lastStep = name]

StartListening ==
  /\ voice' = startListening(Step(voice, "startListening"))
  /\ UNCHANGED <<users, last, capture, calls, client, poll, drive>>

StopListening ==
  /\ voice' = stopListening(Step(voice, "stopListening"))
  /\ UNCHANGED <<users, last, capture, calls, client, poll, drive>>

SetEnabled ==
  /\ \E enabled \in BOOLEAN : voice' = setEnabled(Step(voice, "setEnabled"), enabled)
  /\ UNCHANGED <<users, last, capture, calls, client, poll, drive>>

\* A page, or processCommand on a recognized command, speaks.
Speak ==
  /\ voice' = speak(Step(voice, "speak"))
  /\ UNCHANGED <<users, last, capture, calls, client, poll, drive>>

\* The utterance is over (onend or onerror of the utterance).
UtteranceEnds ==
  /\ voice.speaking
  /\ voice' = [Step(voice, "utterance.onend") EXCEPT !.speaking = FALSE]
  /\ UNCHANGED <<users, last, capture, calls, client, poll, drive>>

\* The recognizer reports an error; onerror restarts for two kinds of it.
RecognizerError ==
  /\ voice.rec = "running"
  /\ \E error \in {"no-speech", "audio-capture", "network"} :
       LET v == [Step(voice, "onerror") EXCEPT !.rec = "erred"]
       IN /\ voice' = IF error \in {"no-speech", "audio-capture"}
                      THEN restartListening(v)
                      ELSE v
          /\ voice'.timers <= MaxTimers
  /\ UNCHANGED <<users, last, capture, calls, client, poll, drive>>

\* The session ends (by itself, after an error or after stop()); onend
\* restarts if the assistant is listening and enabled.
RecognizerEnd ==
  /\ voice.rec \in {"running", "erred", "stopping"}
  /\ LET v == [Step(voice, "onend") EXCEPT !.rec = "idle"]
     IN voice' = IF v.isListening /\ v.isEnabled THEN restartListening(v) ELSE v
  /\ voice'.timers <= MaxTimers
  /\ UNCHANGED <<users, last, capture, calls, client, poll, drive>>

\* A restart timer fires.
RestartTimer ==
  /\ voice.timers > 0
  /\ LET v == [Step(voice, "timer") EXCEPT !.timers = @ - 1]
     IN voice' = IF timerStarts(v) THEN recognitionStart(v) ELSE v
  /\ UNCHANGED <<users, last, capture, calls, client, poll, drive>>

VoiceInit ==
  /\ users = <<>>
  /\ last = NoRequest
  /\ capture = NoCapture
  /\ calls = NoCalls
  /\ client = NoClient
  /\ voice \in {NewVoice(TRUE), NewVoice(FALSE)}
  /\ poll = NoPoll
  /\ drive = NoDrive

VoiceNext ==
  \/ StartListening
  \/ StopListening
  \/ SetEnabled
  \/ Speak
  \/ UtteranceEnds
  \/ RecognizerError
  \/ RecognizerEnd
  \/ RestartTimer

VoiceSpec == VoiceInit /\ [][VoiceNext]_vars

\* ------------------------------------------------ the dashboard status poll
\* The effect of app/page.tsx: poll() is called once when the effect runs and
\* calls itself again through setTimeout; the cleanup sets `cancelled`.  A
\* step is what runs between two awaits of poll.
\* poll() was just called by the effect.
NewChain == [cancelled |-> FALSE, fetching |-> 1, mode |-> 0, timers |-> 0]

\* if (!cancelled) in front of the setters
updatesAllowed(ch) == ~ch.cancelled

\* Mutant: the finally block schedules the next poll whatever `cancelled` is.
reschedulesAlways(ch) == TRUE

\* if (!cancelled) in the finally block
reschedules(ch) == ~ch.cancelled

\* finally { if (!cancelled) setTimeout(poll, 1000) }
pollFinally(ch) == IF reschedules(ch) THEN [ch EXCEPT !.timers = @ + 1] ELSE ch

\* The state of the page after a step of chain ch that called setters
\* (wrote) with the outcome next.
Written(next, ch, wrote) ==
  [next EXCEPT !.lateWrite = @ \/ (wrote /\ ch.cancelled)]

\* useEffect runs: at most one effect is live.
Mount ==
  /\ Len(poll.chains) < MaxMounts
  /\ \A i \in 1..Len(poll.chains) : poll.chains[i].cancelled
  /\ poll' = [poll EXCEPT !.chains = Append(@, NewChain)]
  /\ UNCHANGED <<users, last, capture, calls, client, voice, drive>>

\* The cleanup of the effect.
Cleanup ==
  /\ \E i \in 1..Len(poll.chains) :
       /\ ~poll.chains[i].cancelled
       /\ poll' = [poll EXCEPT !.chains[i].cancelled = TRUE]
  /\ UNCHANGED <<users, last, capture, calls, client, voice, drive>>

\* The three fetches and their bodies arrive (or one of them throws).
PollFetched(i) ==
  /\ i <= Len(poll.chains)
  /\ poll.chains[i].fetching > 0
  /\ \E threw, statusOk, irOk, healthOk, simulation \in BOOLEAN :
       LET ch == [poll.chains[i] EXCEPT !.fetching = @ - 1]
       IN /\ threw => (~statusOk /\ ~irOk /\ ~healthOk /\ ~simulation)
          /\ poll' =
               IF threw
               THEN Written([poll EXCEPT !.chains[i] = pollFinally(ch),
                                         !.online = IF updatesAllowed(ch) THEN FALSE ELSE @],
                            ch, updatesAllowed(ch))
               ELSE IF updatesAllowed(ch)
               THEN Written([poll EXCEPT !.chains[i] = [ch EXCEPT !.mode = @ + 1],
                                         !.status = IF statusOk THEN "reported" ELSE @,
                                         !.online = statusOk,
                                         !.irSensors = IF irOk THEN "reported" ELSE @,
                                         !.simulationMode = IF healthOk THEN simulation ELSE @],
                            ch, TRUE)
               ELSE [poll EXCEPT !.chains[i] = pollFinally(ch)]
          /\ poll'.chains[i].timers <= MaxPolls /\ poll'.chains[i].mode <= MaxPolls
  /\ UNCHANGED <<users, last, capture, calls, client, voice, drive>>

\* The fetch of /api/mode and its body arrive (or throw).
PollMode(i) ==
  /\ i <= Len(poll.chains)
  /\ poll.chains[i].mode > 0
  /\ \E threw, ok \in BOOLEAN, robotMode \in {"manual", "autonomous", "other"} :
       LET ch == [poll.chains[i] EXCEPT !.mode = @ - 1]
           sets == updatesAllowed(ch) /\ ok /\ robotMode \in {"manual", "autonomous"}
       IN /\ threw => (~ok /\ robotMode = "other")
          /\ poll' =
               IF threw
               THEN Written([poll EXCEPT !.chains[i] = pollFinally(ch),
                                         !.online = IF updatesAllowed(ch) THEN FALSE ELSE @],
                            ch, updatesAllowed(ch))
               ELSE Written([poll EXCEPT !.chains[i] = pollFinally(ch),
                                         !.mode = IF sets THEN robotMode ELSE @],
                            ch, sets)
          /\ poll'.chains[i].timers <= MaxPolls
  /\ UNCHANGED <<users, last, capture, calls, client, voice, drive>>

\* setTimeout calls poll, which runs to its first await.
PollTimer(i) ==
  /\ i <= Len(poll.chains)
  /\ poll.chains[i].timers > 0
  /\ poll.chains[i].fetching < MaxPolls
  /\ poll' = [poll EXCEPT !.chains[i].timers = @ - 1, !.chains[i].fetching = @ + 1]
  /\ UNCHANGED <<users, last, capture, calls, client, voice, drive>>

PollInit ==
  /\ users = <<>>
  /\ last = NoRequest
  /\ capture = NoCapture
  /\ calls = NoCalls
  /\ client = NoClient
  /\ voice = NoVoice
  /\ poll = NoPoll
  /\ drive = NoDrive

PollNext ==
  \/ Mount
  \/ Cleanup
  \/ \E i \in 1..MaxMounts : PollFetched(i) \/ PollMode(i) \/ PollTimer(i)

PollSpec == PollInit /\ [][PollNext]_vars

\* Fetches settle and timers fire.
PollLiveSpec ==
  PollSpec /\ \A i \in 1..MaxMounts :
                WF_vars(PollFetched(i)) /\ WF_vars(PollMode(i)) /\ WF_vars(PollTimer(i))

\* ------------------------------------------------- the drive and mode routes
\* POST /api/drive and POST /api/mode, cut at their awaits: robotPost, then
\* prisma.event.create.
VALID_DIRECTIONS == {"forward", "backward", "left", "right", "stop"}

\* What the direction (or mode) field of a body holds; "unparsable" stands
\* for a body req.json() rejects.
DirectionInputs == {"forward", "stop", "sideways", "unparsable"}

DriveRoutes == {"drive", "driveChecked", "mode"}

\* The type of the event a route logs.
EventType(route) == IF route = "mode" THEN "ModeChanged" ELSE "DriveCommand"

\* What the fetch of robotPost may do: answer 2xx with a JSON body, answer
\* 2xx with a body that is not JSON, answer another status, reject.
RobotOutcomes == {"2xx", "2xx-not-json", "non-2xx", "network-error"}

\* Mutant: the status of the response is not looked at.
robotPostUnchecked(outcome) ==
  IF outcome \in {"2xx", "non-2xx"} THEN "returns" ELSE "throws"

\* robotPost: throws if fetch rejects, if !res.ok, or if res.json() rejects.
robotPost(outcome) == IF outcome = "2xx" THEN "returns" ELSE "throws"

\* NextResponse.json({ ok: false, error }, { status })
DriveError(status) == [status |-> status, ok |-> FALSE]

\* The handler up to `await robotPost(...)`.
DriveRequest ==
  /\ drive.pc \in {"idle", "done"}
  /\ drive.commands < MaxCommands
  /\ \E route \in DriveRoutes, direction \in DirectionInputs :
       LET d == [drive EXCEPT !.route = route, !.direction = direction,
                              !.robot = "none", !.logged = FALSE,
                              !.resp = [status |-> 0, ok |-> FALSE]]
       IN drive' =
            IF direction = "unparsable"
            THEN [d EXCEPT !.pc = "done", !.resp = DriveError(500)]
            ELSE IF route = "driveChecked" /\ direction \notin VALID_DIRECTIONS
            THEN [d EXCEPT !.pc = "done", !.resp = DriveError(400)]
            ELSE [d EXCEPT !.pc = "robot"]
  /\ UNCHANGED <<users, last, capture, calls, client, voice, poll>>

\* The robot answers (or does not); robotPost returns or throws.
RobotAnswers ==
  /\ drive.pc = "robot"
  /\ \E outcome \in RobotOutcomes :
       LET d == [drive EXCEPT
                   !.robot = CASE outcome \in {"2xx", "2xx-not-json"} -> "accepted"
                               [] outcome = "non-2xx" -> "refused"
                               [] OTHER -> "unreachable",
                   !.commands = IF outcome \in {"2xx", "2xx-not-json"} THEN @ + 1 ELSE @]
       IN drive' = IF robotPost(outcome) = "throws"
                   THEN [d EXCEPT !.pc = "done", !.resp = DriveError(500)]
                   ELSE [d EXCEPT !.pc = "event"]
  /\ UNCHANGED <<users, last, capture, calls, client, voice, poll>>

\* prisma.event.create runs (or rejects) and the route answers.
EventCreate ==
  /\ drive.pc = "event"
  /\ \E dbThrows \in BOOLEAN :
       drive' = IF dbThrows
                THEN [drive EXCEPT !.pc = "done", !.resp = DriveError(500)]
                ELSE [drive EXCEPT !.pc = "done", !.logged = TRUE,
                                   !.events = Append(@, EventType(drive.route)),
                                   !.resp = [status |-> 200, ok |-> TRUE]]
  /\ UNCHANGED <<users, last, capture, calls, client, voice, poll>>

DriveInit ==
  /\ users = <<>>
  /\ last = NoRequest
  /\ capture = NoCapture
  /\ calls = NoCalls
  /\ client = NoClient
  /\ voice = NoVoice
  /\ poll = NoPoll
  /\ drive = NoDrive

DriveNext == DriveRequest \/ RobotAnswers \/ EventCreate

DriveSpec == DriveInit /\ [][DriveNext]_vars

\* ================================================================ claims
\* Validation as section 4.1 of the specification states it: a sequence of
\* exactly 128 finite numbers.
AllFinite(items) == \A i \in 1..items.length : At(items, i).t = "number"
RightLength(value) == IsArray(value) /\ value.items.length = DESCRIPTOR_LENGTH
ValidDescriptor(value) == RightLength(value) /\ AllFinite(value.items)

\* The body says matched: true.
Matched(resp) == "matched" \in resp.has /\ resp.matched = TRUE
\* The body says matched: false.
NotMatched(resp) == "matched" \in resp.has /\ resp.matched = FALSE

\* The distance of the probe of the last request to the embedding of id.
ProbeDistance(id) ==
  DistanceToStored(last.faceDescriptor.items, users[id].faceDescriptor.text)

\* A recognize request that was answered by the handler's own logic.
Recognized == last.op = "recognize" /\ ~last.threw

\* The rows came back in the order of their ids (the order of a table scan).
InIdOrder(order) == \A i, j \in 1..Len(order) : i < j => order[i] < order[j]

\* C1: for a valid probe and a non-empty set of enrolled identities,
\* recognize reports matched = true if and only if the minimum distance over
\* the enrolled identities is strictly below MATCH_THRESHOLD, that is, if and
\* only if some enrolled identity is strictly closer than 0.6.  Stated for the
\* requests whose rows came back in id order.
C1_MatchedIffBestBelowThreshold ==
  (Recognized /\ ValidDescriptor(last.faceDescriptor) /\ Enrolled(users) # {}
     /\ InIdOrder(last.order))
    => (Matched(last.resp)
          <=> \E id \in Enrolled(users) : BelowThreshold(ProbeDistance(id)))

\* C2: the candidate recognize selects has the minimum distance over all the
\* enrolled identities: its distance is a number and none of them is closer.
\* Stated for the requests whose rows came back in id order.
C2_SelectedIsMinimum ==
  (Recognized /\ ValidDescriptor(last.faceDescriptor) /\ ~last.bestMatch.isNull
     /\ InIdOrder(last.order))
    => /\ last.bestMatch.userId \in Enrolled(users)
       /\ last.bestMatch.distance = ProbeDistance(last.bestMatch.userId)
       /\ \A id \in Enrolled(users) :
            ProbeDistance(id).k = "fin"
              => /\ last.bestMatch.distance.k = "fin"
                 /\ last.bestMatch.distance.sq <= ProbeDistance(id).sq

\* C3: recognize sets the sessionUserId cookie exactly when it answers
\* matched = true, and then for the identity of the answer, which is an
\* enrolled identity closer to the probe than the threshold; a non-match, a
\* validation failure and a server error set no cookie.
C3_SessionOnlyForMatch ==
  last.op = "recognize"
    => /\ (last.resp.setCookie # "") <=> Matched(last.resp)
       /\ last.resp.status # 200 => last.resp.setCookie = ""
       /\ Matched(last.resp)
            => /\ last.resp.user.id \in Enrolled(users)
               /\ last.resp.user.id = last.bestMatch.userId
               /\ last.resp.setCookie = String(last.resp.user.id)
               /\ BelowThreshold(ProbeDistance(last.resp.user.id))

\* C3 witness: with two enrolled identities, the second one is matched and
\* the session is issued for it.
C3_Witness ==
  /\ last.op = "recognize"
  /\ Matched(last.resp)
  /\ last.resp.setCookie = String(2)
  /\ Cardinality(Enrolled(users)) = 2

\* C4: after a successful enroll the identity holds one stored embedding and
\* it equals, element for element, the descriptor of that enroll.
C4_StoredEqualsLatest ==
  (last.op = "enroll" /\ last.resp.ok)
    => /\ ~users[last.userId.n].faceDescriptor.isNull
       /\ JSONparse(users[last.userId.n].faceDescriptor.text) = last.faceDescriptor.items

\* C5: an enroll step whose descriptor fails the validation of the route (it
\* is missing, not an array, or not of length 128) answers with an error and
\* leaves every row of the table, embedding and timestamp, as it was.
C5_ValidationFailureLeavesStore ==
  [][(last'.op = "enroll" /\ ~RightLength(last'.faceDescriptor))
       => (users' = users /\ ~last'.resp.ok /\ last'.resp.status = 400)]_vars

\* C5 witness: a descriptor of a wrong length was refused for an identity
\* that holds an embedding.
C5_Witness ==
  /\ last.op = "enroll"
  /\ last.faceDescriptor = ArrayOf(dShort)
  /\ last.resp.status = 400
  /\ last.userId.kind = "number"
  /\ last.userId.n \in Enrolled(users)

\* C6: an array whose length is not 128 is refused with status 400 by enroll
\* and by recognize, no stored embedding has another length than 128, and
\* recognize compares such a probe with nothing.
C6_WrongLengthRejected ==
  /\ \A id \in Enrolled(users) : users[id].faceDescriptor.text.length = DESCRIPTOR_LENGTH
  /\ (last.op \in {"enroll", "recognize"}
        /\ IsArray(last.faceDescriptor)
        /\ last.faceDescriptor.items.length # DESCRIPTOR_LENGTH)
       => /\ last.resp.status = 400
          /\ ~last.resp.ok
          /\ ~last.threw
          /\ last.bestMatch.isNull

\* C6 witness: a probe one element too long was refused while an identity was
\* enrolled.
C6_Witness ==
  /\ last.op = "recognize"
  /\ last.faceDescriptor = ArrayOf(dLong)
  /\ last.resp.status = 400
  /\ Enrolled(users) # {}

\* C7: a descriptor of length 128 with a non-finite element is refused by
\* enroll and by recognize before any storage or matching work: the request
\* fails, no stored embedding holds a non-finite element and recognize
\* compares such a probe with nothing.
C7_NonFiniteRejected ==
  /\ \A id \in Enrolled(users) : AllFinite(JSONparse(users[id].faceDescriptor.text))
  /\ (last.op \in {"enroll", "recognize"}
        /\ RightLength(last.faceDescriptor)
        /\ ~AllFinite(last.faceDescriptor.items))
       => /\ ~last.resp.ok
          /\ last.bestMatch.isNull

\* C8: an enroll step for an id that names no row fails and leaves the table
\* as it was (no row is added, no embedding changes); when the request is
\* otherwise well formed (a non-zero id, a descriptor that passes the route's
\* validation, the database reachable) the answer is 404 "User not found".
C8_UnknownIdentityWritesNothing ==
  [][(last'.op = "enroll" /\ last'.userId.kind = "number"
        /\ last'.userId.n \notin 1..Len(users))
       => /\ users' = users
          /\ ~last'.resp.ok
          /\ (last'.userId.n # 0 /\ RightLength(last'.faceDescriptor) /\ ~last'.threw)
               => (last'.resp.status = 404 /\ last'.resp.error = "User not found")]_vars

\* C8 witness: an enroll for an id beyond the rows was answered 404 while
\* another identity holds an embedding.
C8_Witness ==
  /\ last.op = "enroll"
  /\ last.resp.status = 404
  /\ last.userId.n > Len(users)
  /\ Enrolled(users) # {}

\* C9: for a valid probe, when no identity is enrolled, recognize answers a
\* normal non-match: ok, matched = false, confidence 0, no identity.
C9_NoCandidatesIsNonMatch ==
  (Recognized /\ ValidDescriptor(last.faceDescriptor) /\ Enrolled(users) = {})
    => /\ last.resp.ok
       /\ last.resp.status = 200
       /\ NotMatched(last.resp)
       /\ last.resp.confidence = Num(0)
       /\ "user" \notin last.resp.has

\* C10: an invalid probe is answered with an error (ok = false) and never
\* with a matched = false result; a valid probe is never answered with the
\* validation error.
C10_InvalidProbeIsAnError ==
  last.op = "recognize"
    => /\ ~ValidDescriptor(last.faceDescriptor)
            => (~last.resp.ok /\ "matched" \notin last.resp.has)
       /\ ValidDescriptor(last.faceDescriptor) => last.resp.status # 400

\* The enrolled identities whose distance to the probe of the last request is
\* a number and the least of those that are numbers.
Nearest ==
  {id \in Enrolled(users) :
     /\ ProbeDistance(id).k = "fin"
     /\ \A other \in Enrolled(users) :
          ProbeDistance(other).k = "fin" => ProbeDistance(id).sq <= ProbeDistance(other).sq}

\* C11: when candidates exist and the best (minimum) distance is not below
\* the threshold, recognize answers a rejection (matched = false) that carries
\* the confidence of the best candidate and no identity: no user object and
\* no session.  Stated for a valid probe and rows read in id order.
C11_RejectionCarriesBestConfidence ==
  (Recognized /\ ValidDescriptor(last.faceDescriptor) /\ InIdOrder(last.order)
     /\ Nearest # {}
     /\ \A id \in Nearest : ~BelowThreshold(ProbeDistance(id)))
    => /\ NotMatched(last.resp)
       /\ "user" \notin last.resp.has
       /\ last.resp.user = NoUser
       /\ last.resp.setCookie = ""
       /\ "confidence" \in last.resp.has
       /\ \E id \in Nearest :
            last.resp.confidence = JSONnumber(Confidence(ProbeDistance(id)))

\* C18: the "has enrolled face" status of an identity (enrolled of GET
\* /api/face/enroll, faceEnrolled of GET /api/users) is false for a new
\* identity, becomes true with a successful enroll of that identity and with
\* nothing else, and never becomes false again; the GET route reports it.
C18_StatusFlipsOnFirstSuccess ==
  [][/\ \A id \in 1..Len(users') :
          faceEnrolled(users'[id])
            <=> \/ (id <= Len(users) /\ faceEnrolled(users[id]))
                \/ (last'.op = "enroll" /\ last'.resp.ok /\ last'.userId.n = id)
     /\ (last'.op = "status" /\ last'.resp.status = 200)
          => last'.resp.enrolled = faceEnrolled(users'[last'.userId.n])]_vars

\* C18 witness: the status of an enrolled identity is reported true while
\* another identity, never enrolled, still has it false.
C18_Witness ==
  /\ last.op = "status"
  /\ last.resp.status = 200
  /\ last.resp.enrolled
  /\ \E id \in 1..Len(users) : ~faceEnrolled(users[id])

\* C19: a recognize request, whatever its outcome, leaves every row of the
\* table (embedding and timestamp) as it was.
C19_RecognizeLeavesStore ==
  [][last'.op = "recognize" => users' = users]_vars

\* C19 witness: a probe that differs from the stored embedding was matched.
C19_Witness ==
  /\ last.op = "recognize"
  /\ Matched(last.resp)
  /\ JSONstringify(last.faceDescriptor.items) # users[last.resp.user.id].faceDescriptor.text

\* c is Math.round((1 - distance) * 100) for the distance whose sum of squares
\* is sq hundredths: with y = 100 * distance, c = 100 - k for the k >= 0 with
\* k - 0.5 < y <= k + 0.5, written on the squares (y * y = 100 * sq).
RoundsTo(c, sq) ==
  LET k == 100 - c
  IN /\ k >= 0
     /\ (2 * k + 1) * (2 * k + 1) >= 400 * sq
     /\ (k = 0 \/ (2 * k - 1) * (2 * k - 1) < 400 * sq)

\* C12: the confidence recognize returns, for a match and for a non-match
\* alike, is round((1 - distance) * 100) for the distance of the best
\* (minimum-distance) candidate, unclamped: 100 at distance 0, negative beyond
\* distance 1.  Stated for a valid probe and rows read in id order.
C12_ConfidenceIsRoundedUnclamped ==
  (Recognized /\ ValidDescriptor(last.faceDescriptor) /\ InIdOrder(last.order)
     /\ Nearest # {})
    => /\ "confidence" \in last.resp.has
       /\ last.resp.confidence.t = "number"
       /\ \A id \in Nearest :
            /\ RoundsTo(last.resp.confidence.v, ProbeDistance(id).sq)
            /\ ProbeDistance(id).sq = 0 => last.resp.confidence.v = 100
            /\ ProbeDistance(id).sq > 100 => last.resp.confidence.v < 0

\* The position of id in the order the rows were read in.
PositionIn(order, id) == CHOOSE i \in 1..Len(order) : order[i] = id

\* C20: when several candidates share the exact minimum distance, recognize
\* selects the one of them that comes first in the iteration order, whatever
\* that order is.  Stated for a valid probe.
C20_FirstOfTiesSelected ==
  (Recognized /\ ValidDescriptor(last.faceDescriptor) /\ Cardinality(Nearest) >= 2)
    => /\ ~last.bestMatch.isNull
       /\ last.bestMatch.userId \in Nearest
       /\ \A id \in Nearest :
            PositionIn(last.order, last.bestMatch.userId) <= PositionIn(last.order, id)

\* C13: captureFaceDescriptor returns success, with a descriptor, only when
\* the detection that settled the race reported exactly one face; with no
\* face or several faces it returns a failure without a descriptor; and a
\* request reaches the enroll or the recognize route only from a page whose
\* capture succeeded with one face.
C13_CaptureFailsClosed ==
  /\ [](/\ capture.result = "success"
            => /\ capture.descriptor
               /\ capture.race = "detection"
               /\ capture.detection = "resolved"
               /\ capture.faces = 1
        /\ (capture.race = "detection" /\ capture.faces # 1)
            => capture.result = "failure"
        /\ capture.result = "failure"
            => (~capture.descriptor /\ ~capture.sent /\ capture.pc = "error")
        /\ capture.sent => capture.result = "success")
  /\ [][(last' # last \/ users' # users)
          => (capture.pc = "sending" /\ capture.result = "success" /\ capture.faces = 1)]_vars

\* C13 witness: two faces were in the frame; the capture failed and nothing
\* was sent.
C13_Witness ==
  /\ capture.race = "detection"
  /\ capture.faces = MaxFaces
  /\ capture.result = "failure"
  /\ capture.pc = "error"
  /\ ~capture.sent

\* C14: a capture whose detection has not settled when the 10 second timer
\* fires returns a failure without a descriptor, which a detection that
\* completes later does not change; and a capture that awaits its detection
\* always eventually returns.
C14_TimeoutFails ==
  /\ [](capture.race = "timeout"
          => /\ capture.result = "failure"
             /\ ~capture.descriptor
             /\ ~capture.sent
             /\ capture.pc = "error")
  /\ (capture.pc = "detecting") ~> (capture.pc \in {"error", "sending"})

\* C14 witness: the timer won the race and the detection then completed with
\* one face; the capture is still a failure.
C14_Witness ==
  /\ capture.race = "timeout"
  /\ capture.detection = "resolved"
  /\ capture.faces = 1
  /\ capture.result = "failure"

\* C15: on the enroll page a capture that failed (timeout included) or was
\* cancelled while it was in progress sends no enroll request and leaves the
\* table as it was.
C15_AbandonedCaptureLeavesNothing ==
  [][(/\ capture'.page = "enroll"
      /\ \/ capture'.result = "failure"
         \/ capture'.cancelledAt \in {"progress", "detecting"})
       => (users' = users /\ last' = last /\ ~capture'.sent)]_vars

\* C16: under every interleaving of the concurrent enroll requests for
\* identity 1, the row holds one embedding, the one written by the request
\* whose update ran last (the text that request serialised, which reads back
\* as its descriptor when the descriptor is of finite numbers, with that
\* request's timestamp); it is never empty once a request succeeded, and
\* every request answers 200.
C16_LastWriterWins ==
  /\ \A i \in EnrollCalls :
       calls[i].wroteLast
         => /\ users[1].faceDescriptor = Text(JSONstringify(calls[i].faceDescriptor.items))
            /\ AllFinite(calls[i].faceDescriptor.items)
                 => JSONparse(users[1].faceDescriptor.text) = calls[i].faceDescriptor.items
            /\ users[1].faceEnrolledAt = Date(calls[i].now)
            /\ \A j \in EnrollCalls : calls[j].wroteLast => j = i
  /\ \A i \in EnrollCalls :
       calls[i].pc = "done"
         => /\ calls[i].resp.ok /\ calls[i].resp.status = 200
            /\ ~users[1].faceDescriptor.isNull
            /\ \E j \in EnrollCalls : calls[j].wroteLast

\* C16 witness: two requests with different descriptors both read the row
\* before either wrote, both answered, and the first one wrote last.
C16_Witness ==
  /\ calls[1].pc = "done" /\ calls[2].pc = "done"
  /\ calls[1].faceDescriptor # calls[2].faceDescriptor
  /\ calls[1].user = calls[2].user
  /\ calls[1].wroteLast

\* The texts a row of the concurrent model can hold: the one it started
\* with or the one an enroll request serialised.
CompleteTexts ==
  {JSONstringify(d) : d \in ConcDescriptors \cup {dZero, dFar}}

\* C17: a recognize request decides on the rows findMany returned: they are
\* the table as it was when findMany ran, they do not change afterwards, each
\* embedding in them is a complete stored value, and the selected candidate,
\* its distance and the verdict are computed from them, whatever the enroll
\* requests write in between.
C17_MatchDecidesOnSnapshot ==
  /\ [][LET r == RecognizeCall
        IN /\ (calls[r].pc = "read" /\ calls'[r].pc = "scan") => calls'[r].table = users
           /\ calls[r].pc = "scan"
                => (calls'[r].table = calls[r].table /\ calls'[r].order = calls[r].order)]_vars
  /\ [](LET c == calls[RecognizeCall]
        IN (c.pc = "done" /\ ~c.bestMatch.isNull)
             => /\ c.bestMatch.distance
                     = DistanceToStored(c.faceDescriptor.items,
                                        c.table[c.bestMatch.userId].faceDescriptor.text)
                /\ \A k \in 1..Len(c.order) :
                     /\ c.table[c.order[k]].faceDescriptor.text \in CompleteTexts
                     /\ ~Less(DistanceToStored(c.faceDescriptor.items,
                                               c.table[c.order[k]].faceDescriptor.text),
                              c.bestMatch.distance)
                /\ Matched(c.resp) <=> BelowThreshold(c.bestMatch.distance))

\* C17 witness: the request matched the embedding it had read although an
\* enroll request replaced it, before the loop ran, by one that is too far.
C17_Witness ==
  LET c == calls[RecognizeCall]
  IN /\ c.pc = "done"
     /\ Matched(c.resp)
     /\ c.table # users
     /\ ~BelowThreshold(DistanceToStored(c.faceDescriptor.items,
                                         users[c.bestMatch.userId].faceDescriptor.text))

\* The scenario of section 9: identity 7 is the one enrolled identity, with
\* zeros, and the probe is 1.0 everywhere.
ScenarioAllOnes ==
  /\ users = SevenUsers
  /\ last.op = "recognize"
  /\ last.faceDescriptor = ArrayOf(dOnes)

\* C21: in the scenario (squared distance 128) recognize answers
\* matched = false with confidence -1030.
C21_ScenarioConfidenceMinus1030 ==
  ScenarioAllOnes
    => (NotMatched(last.resp) /\ last.resp.confidence = Num(0 - 1030))

\* C21 amended: in the scenario recognize answers matched = false with
\* confidence Math.round((1 - sqrt(128)) * 100) = -1031, for the candidate
\* identity 7 at squared distance 128.
C21_ScenarioConfidenceMinus1031 ==
  ScenarioAllOnes
    => /\ NotMatched(last.resp)
       /\ last.resp.confidence = Num(0 - 1031)
       /\ last.resp.setCookie = ""
       /\ last.bestMatch.userId = 7
       /\ last.bestMatch.distance = [k |-> "fin", sq |-> 128 * 100]

\* C21 witness: the scenario was run and answered with a negative confidence.
C21_Witness ==
  /\ ScenarioAllOnes
  /\ last.resp.status = 200
  /\ last.resp.confidence.t = "number" /\ last.resp.confidence.v < 0 - 1000

\* The length of the array stored for a row.
StoredLength(id) == JSONparse(users[id].faceDescriptor.text).length

\* C22: a recognize request that reads an embedding whose length differs
\* from the probe's is answered with an error: no matched field (neither a
\* match nor a non-match), no identity, no confidence, no session cookie and
\* no best candidate retained, wherever the embedding is in the order of the
\* rows; and the candidate of a request that is answered with a result was
\* compared over the full length of both vectors.
C22_LengthMismatchFailsTheMatch ==
  (last.op = "recognize" /\ RecognizeFormatOk(last.faceDescriptor))
    => /\ (\E id \in Enrolled(users) :
              StoredLength(id) # last.faceDescriptor.items.length)
            => /\ last.resp.status = 500 /\ ~last.resp.ok
               /\ last.resp.has = {"ok", "error"}
               /\ last.resp.setCookie = ""
               /\ last.resp.user = NoUser
       /\ "matched" \in last.resp.has
            => /\ \A id \in Enrolled(users) :
                    StoredLength(id) = last.faceDescriptor.items.length
               /\ last.bestMatch.distance.k = "fin"

\* C22 witness: the first row read is at distance 0 of the probe, the second
\* one is an element too long, and the request failed.
C22_Witness ==
  /\ last.op = "recognize"
  /\ last.faceDescriptor = ArrayOf(dZero)
  /\ Len(users) = 2
  /\ StoredLength(1) = DESCRIPTOR_LENGTH
  /\ StoredLength(2) = DESCRIPTOR_LENGTH + 1
  /\ last.order = <<1, 2>>
  /\ last.threw /\ last.resp.status = 500

\* The ids a sequence of row ids holds.
Scanned(order) == {order[k] : k \in 1..Len(order)}

\* C23: in every state a row has a stored face descriptor if and only if it
\* has an enrollment timestamp; the identities GET /api/users and
\* GET /api/face/enroll report as enrolled are those with a descriptor, and
\* they are the rows a recognize request scans.
C23_DescriptorIffTimestamp ==
  /\ \A id \in 1..Len(users) :
       users[id].faceDescriptor.isNull <=> users[id].faceEnrolledAt.isNull
  /\ (last.op = "list" /\ last.resp.ok) => last.resp.listed = Enrolled(users)
  /\ (last.op = "status" /\ last.resp.ok)
       => (last.resp.enrolled <=> last.userId.n \in Enrolled(users))
  /\ (last.op = "recognize" /\ "matched" \in last.resp.has)
       => Scanned(last.order) = {id \in 1..Len(users) : faceEnrolled(users[id])}

\* C23 witness: of two identities the second alone is enrolled, and the list
\* reports exactly it.
C23_Witness ==
  /\ Len(users) = 2
  /\ last.op = "list"
  /\ last.resp.listed = {2}
  /\ users[1].faceDescriptor.isNull /\ ~users[2].faceDescriptor.isNull

\* The path begins with none of PUBLIC_PATHS.
Protected(pathname) == ~\E p \in PUBLIC_PATHS : startsWith(pathname, p)

\* C24: a request to a path that starts with none of the PUBLIC_PATHS
\* prefixes is let through only if it carries a non-empty sessionUserId
\* cookie; without one it is redirected to /login with from = the requested
\* path: so is every such request to the dashboard and to the drive, mode,
\* buzzer and status routes.
C24_ProtectedNeedsCookie ==
  (client.nav.answer # "none" /\ Protected(client.nav.pathname))
    => /\ client.nav.answer = "next"
            <=> (client.nav.sent.has /\ client.nav.sent.value # "")
       /\ client.nav.answer # "next"
            => /\ client.nav.answer = "redirect"
               /\ client.nav.location = "/login"
               /\ client.nav.from = client.nav.pathname
       /\ client.nav.pathname \in RobotPaths
            => (client.nav.answer = "redirect"
                  <=> ~(client.nav.sent.has /\ client.nav.sent.value # ""))

\* C24 witness: a request to /api/drive with an empty cookie was redirected.
C24_Witness ==
  /\ client.nav.pathname = "/api/drive"
  /\ client.nav.sent = Cookie("")
  /\ client.nav.answer = "redirect"
  /\ client.nav.from = "/api/drive"

\* The credentials are those of a row of the table.
ValidCredentials(username, password) ==
  \E id \in 1..Len(users) :
    users[id].username = username /\ users[id].password = password

\* C25: the browser holds a sessionUserId cookie exactly when its most
\* recent successful authentication (a login with the username and password
\* of a row, or a face match) was not followed by a logout, and the cookie
\* is then the id of that authentication; a login that fails and a
\* recognize that does not match leave the cookie as it was; after a logout
\* the browser holds no cookie and its next request to a protected path is
\* redirected to /login.
C25_CookieFollowsAuthentication ==
  /\ [](/\ client.cookie.has <=> client.session # ""
        /\ client.cookie.has => client.cookie.value = client.session
        /\ (last.op = "login" /\ ~last.threw)
             => (last.resp.ok <=> ValidCredentials(last.username, last.password))
        /\ (last.op = "login" /\ last.resp.ok)
             => /\ users[last.resp.user.id].username = last.username
                /\ last.resp.setCookie = String(last.resp.user.id))
  /\ [][/\ (last'.op = "login" /\ ~last'.resp.ok) => client'.cookie = client.cookie
        /\ (last'.op = "recognize" /\ ~Matched(last'.resp))
             => client'.cookie = client.cookie
        /\ (last'.op = "logout" /\ last' # last) => ~client'.cookie.has
        /\ (client.session = "" /\ client'.nav # client.nav
               /\ client'.nav.sent = client.cookie /\ Protected(client'.nav.pathname))
             => (client'.nav.answer = "redirect" /\ client'.nav.location = "/login")]_vars

\* C25 witness: the browser holds the cookie of identity 1 and a login with
\* a wrong password was just refused.
C25_Witness ==
  /\ last.op = "login" /\ last.resp.status = 401
  /\ last.username = Name(2) /\ last.password = "0000"
  /\ client.cookie = Cookie("1")
  /\ client.session = "1"

\* C25 witness of the logout: after a login and a logout the dashboard was
\* asked for and the browser was sent to /login.
C25_LoggedOutIsRedirected ==
  /\ last.op = "logout"
  /\ client.cookie = NoCookie
  /\ client.nav.pathname = "/" /\ client.nav.sent = NoCookie
  /\ client.nav.answer = "redirect"

\* C26: after stopListening() or setEnabled(false), and until
\* startListening() is called while the assistant is enabled, no step calls
\* recognition.start(): not the callback of a restart timer that was
\* pending, not a later onend or onerror; and none of these sets a new timer.
C26_StoppedStaysStopped ==
  /\ [](voice.stopped => (voice.startCalled = "no" /\ ~voice.isListening))
  /\ [][(voice.stopped /\ voice'.stopped) => voice'.timers <= voice.timers]_vars

\* C26 witness: a restart timer that was pending at the stop fired and the
\* recognizer, which had ended, stayed idle.
C26_Witness ==
  /\ voice.stopped
  /\ voice.recognition
  /\ voice.isEnabled
  /\ voice.lastStep = "timer"
  /\ voice.rec = "idle"
  /\ voice.startCalled = "no"

\* C27: recognition.start() is never invoked on a recognizer that is
\* running, and no two restart timers are pending for one ended session.
C27_NeverStartedTwice ==
  /\ voice.startCalled # "running"
  /\ voice.timers <= 1

\* C28: once handleReset ran, and until the page is used again, the step is
\* "registration-form" and no user is selected; the handleCapture that was
\* in flight changes neither, and it sends no enroll request.
C28_CancelledStaysAtForm ==
  /\ [](capture.cancelledAt # ""
          => (capture.step = "registration-form" /\ capture.selectedUser = 0))
  /\ [][(capture.cancelledAt # "" /\ capture'.cancelledAt # "")
          => (capture'.sent = capture.sent /\ last' = last /\ users' = users)]_vars

\* The state of the dashboard that the poll sets.
Dashboard(p) == <<p.status, p.online, p.irSensors, p.simulationMode, p.mode>>

\* The polls of a chain that are in flight, and those together with the
\* scheduled one.
InFlight(ch) == ch.fetching + ch.mode
Pending(ch) == ch.fetching + ch.mode + ch.timers

\* C29: once the cleanup of an effect ran, none of its polls sets state of
\* the dashboard and none schedules a further poll, and its polling
\* eventually stops; at any time an effect has at most one poll in flight or
\* scheduled, so that a poll is scheduled only when the one before is over.
C29_PollStopsAtCleanup ==
  /\ [](/\ ~poll.lateWrite
        /\ \A i \in 1..Len(poll.chains) : Pending(poll.chains[i]) <= 1)
  /\ [][/\ (\A i \in 1..Len(poll.chains) : poll.chains[i].cancelled)
             => Dashboard(poll') = Dashboard(poll)
        /\ \A i \in 1..Len(poll.chains) :
             /\ poll.chains[i].cancelled
                  => poll'.chains[i].timers <= poll.chains[i].timers
             /\ poll'.chains[i].timers > poll.chains[i].timers
                  => InFlight(poll'.chains[i]) = 0]_vars
  /\ \A i \in 1..MaxMounts :
       (i <= Len(poll.chains) /\ poll.chains[i].cancelled)
         ~> (i <= Len(poll.chains) /\ Pending(poll.chains[i]) = 0)

\* C29 witness: the effect was cleaned up while its next poll was scheduled;
\* that poll ran and ended, the page shows what an earlier poll reported,
\* and nothing is in flight or scheduled.
C29_Witness ==
  /\ Len(poll.chains) = 1
  /\ poll.chains[1].cancelled
  /\ Pending(poll.chains[1]) = 0
  /\ poll.online /\ poll.status = "reported"

\* C30: an event is created only by a handler whose request the robot
\* accepted, and it is of that handler's type; a request the robot refused or
\* that did not reach it creates no event and is answered 500 with
\* ok = false; an answer with ok = true means that the robot accepted the
\* command and that the event was logged.
C30_EventOnlyAfterAccepted ==
  /\ [](/\ drive.logged => drive.robot = "accepted"
        /\ (drive.pc = "done" /\ drive.robot \in {"refused", "unreachable"})
             => (~drive.logged /\ drive.resp = DriveError(500))
        /\ drive.resp.ok
             => (drive.pc = "done" /\ drive.robot = "accepted" /\ drive.logged
                   /\ drive.resp.status = 200)
        /\ Len(drive.events) <= drive.commands)
  /\ [][drive'.events # drive.events
          => /\ drive.robot = "accepted" /\ drive.pc = "event"
             /\ drive'.events = Append(drive.events, EventType(drive.route))
             /\ drive'.resp.ok]_vars

\* C30 witness: a drive command was logged, and the mode change that
\* followed was refused by the robot: answered 500, one event in the table.
C30_Witness ==
  /\ drive.pc = "done"
  /\ drive.route = "mode"
  /\ drive.robot = "refused"
  /\ drive.resp = DriveError(500)
  /\ drive.events = <<"DriveCommand">>

====
